---- MODULE Spec2Model ----
(***************************************************************************)
(* A model of the WorkDev recommendation service:                          *)
(*   src/ml_service/recommendation_engine.py  (the three engines)          *)
(*   src/ml_service/api/main.py               (the FastAPI handlers)       *)
(*                                                                         *)
(* Conventions.                                                            *)
(*  - A Python float is an exact rational <<n, d>> with d > 0, kept in     *)
(*    lowest terms; round(x, 4) gives an integer number of ten-thousandths *)
(*    ("bp"), so 0.6667 is 6667.                                           *)
(*  - A Python Optional is a sequence: <<>> is None, <<v>> is the value v. *)
(*  - A Python dict is a function whose DOMAIN is the set of keys present. *)
(*  - numpy/pandas positions are 0-based in the source and 1-based here.   *)
(***************************************************************************)
EXTENDS Integers, Sequences, FiniteSets, TLC

\* ------------------------------------------------------------------ bounds

\* Largest result limit a request carries (the API accepts 1..50).
MaxLimit == 3

\* Longest candidate list (and popular-items list) a request carries.
MaxCand == 3

\* ------------------------------------------------- Python values and floats

None == <<>>

Some(v) == <<v>>

Abs(x) == IF x < 0 THEN -x ELSE x

RECURSIVE GCD(_, _)
GCD(a, b) == IF b = 0 THEN a ELSE GCD(b, a % b)

\* The rational n/d in lowest terms (d > 0).
R(n, d) == LET g == GCD(Abs(n), d) IN IF g = 0 THEN <<0, 1>> ELSE <<n \div g, d \div g>>

RAdd(a, b) == R(a[1] * b[2] + b[1] * a[2], a[2] * b[2])

RSub(a, b) == R(a[1] * b[2] - b[1] * a[2], a[2] * b[2])

RMul(a, b) == R(a[1] * b[1], a[2] * b[2])

\* a / b for b > 0 (the callers guard the zero case, as Python raises there).
RDiv(a, b) == R(a[1] * b[2], a[2] * b[1])

RLt(a, b) == a[1] * b[2] < b[1] * a[2]

RLe(a, b) == a[1] * b[2] <= b[1] * a[2]

RMin(a, b) == IF RLe(a, b) THEN a ELSE b

RMax(a, b) == IF RLe(a, b) THEN b ELSE a

RAbs(a) == <<Abs(a[1]), a[2]>>

\* round(x, 4) in ten-thousandths (\div rounds down and % is never negative,
\* so a negative x rounds to the nearest as well). A value exactly halfway between
\* two results goes to the even digit here; Python decides such a tie by the
\* binary error of the float, the same way for equal floats.
Round4(r) ==
    LET x == r[1] * 10000
        q == x \div r[2]
        m == x % r[2]
    IN  IF 2 * m < r[2] THEN q
        ELSE IF 2 * m > r[2] THEN q + 1
        ELSE IF q % 2 = 0 THEN q ELSE q + 1

\* The float a rounded score stands for.
Bp(k) == R(k, 10000)

\* int(x * 100) for x >= 0.
Percent(r) == (r[1] * 100) \div r[2]

\* dict.get(key, default)
Get(dict, key, default) == IF key \in DOMAIN dict THEN dict[key] ELSE default

\* ------------------------------------------ content scoring (both engines)

\* ProjectRecommendationEngine._calculate_experience_fit and
\* TalentRecommendationEngine._calculate_experience_fit (identical bodies).
LevelMap(level) ==
    CASE level = "junior" -> 1
      [] level = "mid"    -> 2
      [] level = "senior" -> 3
      [] level = "expert" -> 4
      [] OTHER            -> 2

ComplexityMap(c) ==
    CASE c = "low"    -> 1
      [] c = "medium" -> 2
      [] c = "high"   -> 3
      [] c = "expert" -> 4
      [] OTHER        -> 2

ExperienceFit(developer_level, project_complexity) ==
    LET diff == Abs(LevelMap(developer_level) - ComplexityMap(project_complexity))
    IN  IF diff = 0 THEN R(1, 1)
        ELSE IF diff = 1 THEN R(7, 10)
        ELSE R(4, 10)

\* A Jaccard skill match (_calculate_skill_overlap, which no scorer calls).
SkillMatchJaccard(skills, required_skills) ==
    IF Cardinality(required_skills) > 0
    THEN R(Cardinality(skills \cap required_skills), Cardinality(skills \cup required_skills))
    ELSE R(1, 2)

\* The skill_match of calculate_content_scores, generate_talent_recommendations
\* and get_cold_start_project_recommendations.
SkillMatch(skills, required_skills) ==
    IF Cardinality(required_skills) > 0
    THEN R(Cardinality(skills \cap required_skills), Cardinality(required_skills))
    ELSE R(1, 2)

\* ProjectRecommendationEngine._calculate_budget_alignment raises
\* ZeroDivisionError on these inputs.
BudgetAlignmentRaises(hourly_rate, budget_range) ==
    IF DOMAIN budget_range = {} THEN FALSE
    ELSE IF "fixed" \in DOMAIN budget_range
    THEN \/ Get(budget_range, "estimated_hours", 40) = 0
         \/ (budget_range["fixed"] = 0 /\ hourly_rate = 0)
    ELSE LET budget_min == Get(budget_range, "min", 0)
         IN  /\ "max" \in DOMAIN budget_range
             /\ budget_min <= hourly_rate
             /\ hourly_rate <= budget_range["max"]
             /\ budget_range["max"] = budget_min

\* ProjectRecommendationEngine._calculate_budget_alignment (where it returns).
BudgetAlignment(hourly_rate, budget_range) ==
    IF DOMAIN budget_range = {} THEN R(1, 2)
    ELSE IF "fixed" \in DOMAIN budget_range
    THEN LET implicit_rate == R(budget_range["fixed"], Get(budget_range, "estimated_hours", 40))
             rate == R(hourly_rate, 1)
         IN  RDiv(RMin(implicit_rate, rate), RMax(implicit_rate, rate))
    ELSE LET budget_min == Get(budget_range, "min", 0)
             unbounded  == "max" \notin DOMAIN budget_range
         IN  IF budget_min <= hourly_rate /\ (unbounded \/ hourly_rate <= budget_range["max"])
             THEN IF unbounded THEN R(1, 1)
                  ELSE LET position == R(hourly_rate - budget_min,
                                         budget_range["max"] - budget_min)
                       IN  RSub(R(1, 1), RMul(RAbs(RSub(R(1, 2), position)), R(4, 10)))
             ELSE IF hourly_rate < budget_min THEN R(8, 10)
             ELSE RMax(RMul(R(budget_range["max"], hourly_rate), R(6, 10)), R(2, 10))

\* A recency score that falls by a hundredth a day (no brackets).
RecencyScoreDecaying(created_at, today) ==
    IF created_at = None THEN R(7, 10)
    ELSE RMax(RSub(R(1, 1), R(today - created_at[1], 100)), R(7, 10))

\* ProjectRecommendationEngine._calculate_recency_score; created_at and the
\* clock are day numbers, (datetime.now() - created_at).days their difference.
RecencyScore(created_at, today) ==
    IF created_at = None THEN R(7, 10)
    ELSE LET days_old == today - created_at[1]
         IN  IF days_old < 7 THEN R(1, 1)
             ELSE IF days_old < 14 THEN R(9, 10)
             ELSE IF days_old < 30 THEN R(8, 10)
             ELSE R(7, 10)

\* A preference match that divides by all three dimensions, asked or not.
PreferenceMatchOverThree(preferences, project) ==
    LET typeHit   == /\ "project_types" \in DOMAIN preferences
                     /\ "project_type" \in DOMAIN project
                     /\ project["project_type"] # None
                     /\ project["project_type"][1] \in preferences["project_types"]
        is_remote == project["is_remote"] = Some(TRUE)
        remHit    == /\ "remote_preference" \in DOMAIN preferences
                     /\ "is_remote" \in DOMAIN project
                     /\ \/ (preferences["remote_preference"] = "remote_only" /\ is_remote)
                        \/ preferences["remote_preference"] \in {"hybrid", "no_preference"}
                        \/ (preferences["remote_preference"] = "onsite_only" /\ ~is_remote)
        indHit    == /\ "industries" \in DOMAIN preferences
                     /\ "industry" \in DOMAIN project
                     /\ project["industry"] # None
                     /\ project["industry"][1] \in preferences["industries"]
        B(x)      == IF x THEN 1 ELSE 0
    IN  IF DOMAIN preferences # {} THEN R(B(typeHit) + B(remHit) + B(indHit), 3)
        ELSE R(1, 2)

\* ProjectRecommendationEngine._calculate_preference_match; preferences is a
\* dict here (the caller's None is in ContentScoresRaise).
PreferenceMatch(preferences, project) ==
    LET typeAsked == "project_types" \in DOMAIN preferences /\ "project_type" \in DOMAIN project
        typeHit   == typeAsked /\ project["project_type"] # None
                               /\ project["project_type"][1] \in preferences["project_types"]
        remAsked  == "remote_preference" \in DOMAIN preferences /\ "is_remote" \in DOMAIN project
        pref_remote == preferences["remote_preference"]
        is_remote == project["is_remote"] = Some(TRUE)
        remHit    == remAsked /\
                     (\/ (pref_remote = "remote_only" /\ is_remote)
                      \/ pref_remote = "hybrid"
                      \/ pref_remote = "no_preference"
                      \/ (pref_remote = "onsite_only" /\ ~is_remote))
        indAsked  == "industries" \in DOMAIN preferences /\ "industry" \in DOMAIN project
        indHit    == indAsked /\ project["industry"] # None
                              /\ project["industry"][1] \in preferences["industries"]
        B(x)      == IF x THEN 1 ELSE 0
        total_prefs == B(typeAsked) + B(remAsked) + B(indAsked)
        matches   == B(typeHit) + B(remHit) + B(indHit)
    IN  IF total_prefs > 0 THEN R(matches, total_prefs) ELSE R(1, 2)

\* The last element of a list of dicts whose key field has the given value
\* (a dict filled in a loop keeps the last write).
LastWith(seq, key, value) ==
    seq[CHOOSE i \in 1..Len(seq) :
            /\ seq[i][key] = value
            /\ \A j \in (i + 1)..Len(seq) : seq[j][key] # value]

\* One pass of the loop of calculate_content_scores: the breakdown of a project.
ContentBreakdown(developer_profile, project, today) ==
    LET developer_skills == Get(developer_profile, "skills", {})
        experience_level == Get(developer_profile, "experience_level", "mid")
        hourly_rate      == Get(developer_profile, "hourly_rate", 50)
        preferences      == Get(developer_profile, "preferences", Some(<<>>))
        skill_match      == SkillMatch(developer_skills, Get(project, "required_skills", {}))
        experience_match == ExperienceFit(experience_level,
                                          Get(project, "complexity_level", "medium"))
        budget_fit       == BudgetAlignment(hourly_rate, Get(project, "budget_range", <<>>))
        recency_score    == RecencyScore(Get(project, "created_at", None), today)
        preference_match == PreferenceMatch(preferences[1], project)
        composite_score  ==
            RAdd(RAdd(RAdd(RAdd(RMul(skill_match, R(35, 100)),
                                RMul(experience_match, R(20, 100))),
                           RMul(budget_fit, R(25, 100))),
                      RMul(recency_score, R(10, 100))),
                 RMul(preference_match, R(10, 100)))
    IN  [skill_match      |-> Round4(skill_match),
         experience_match |-> Round4(experience_match),
         budget_fit       |-> Round4(budget_fit),
         recency_score    |-> Round4(recency_score),
         preference_match |-> Round4(preference_match),
         composite_score  |-> Round4(composite_score)]

\* calculate_content_scores raises: a zero division in the budget score, or
\* the TypeError of `"project_types" in None` when the profile's preferences
\* key holds None.
ContentScoresRaise(developer_profile, projects) ==
    \E i \in 1..Len(projects) :
        \/ BudgetAlignmentRaises(Get(developer_profile, "hourly_rate", 50),
                                 Get(projects[i], "budget_range", <<>>))
        \/ Get(developer_profile, "preferences", Some(<<>>)) = None

\* ProjectRecommendationEngine.calculate_content_scores (where it returns).
ContentScores(developer_profile, projects, today) ==
    [project_id \in {projects[i]["id"] : i \in 1..Len(projects)} |->
        ContentBreakdown(developer_profile, LastWith(projects, "id", project_id), today)]

\* ------------------------------------------------- collaborative scoring

\* calculate_collaborative_scores' default top_k_similar.
TopKSimilar == 50

\* np.argsort over the positions still to place: ascending by value, equal
\* values in position order (numpy sorts short arrays by insertion).
RECURSIVE ArgSortFrom(_, _)
ArgSortFrom(row, remaining) ==
    IF remaining = {} THEN <<>>
    ELSE LET i == CHOOSE i \in remaining :
                    \A j \in remaining : row[i] < row[j] \/ (row[i] = row[j] /\ i <= j)
         IN  <<i>> \o ArgSortFrom(row, remaining \ {i})

ArgSort(row) == ArgSortFrom(row, 1..Len(row))

Reverse(seq) == [i \in 1..Len(seq) |-> seq[Len(seq) + 1 - i]]

Min2(a, b) == IF a <= b THEN a ELSE b

\* np.argsort(similarity_scores)[::-1][1 : top_k_similar + 1]
SimilarUserIndices(similarity_scores, top_k_similar) ==
    LET order == Reverse(ArgSort(similarity_scores))
    IN  SubSeq(order, 2, Min2(top_k_similar + 1, Len(order)))

\* The snapshot fields a scoring call reads, as the call sees them.
CollabIsColdStart(snap, user_id) ==
    snap.similarity_model = None \/ user_id \notin DOMAIN snap.user_index

\* The sum of the values from position k on (an accumulating loop).
RECURSIVE SumOver(_, _)
SumOver(values, k) ==
    IF k > Len(values) THEN 0 ELSE values[k] + SumOver(values, k + 1)

\* calculate_collaborative_scores raises IndexError (a position outside the
\* similarity matrix or the interaction matrix) or AttributeError (the
\* interaction matrix is None): only a snapshot whose fields do not belong
\* together gets here.
CollabScoresRaise(snap, user_id, candidate_projects, top_k_similar) ==
    /\ ~CollabIsColdStart(snap, user_id)
    /\ LET sim      == snap.similarity_model[1]
           user_idx == snap.user_index[user_id]
       IN  \/ user_idx > Len(sim)
           \/ /\ user_idx <= Len(sim)
              /\ \E p \in 1..Len(candidate_projects) :
                    /\ candidate_projects[p] \in DOMAIN snap.item_index
                    /\ LET similar == SimilarUserIndices(sim[user_idx], top_k_similar)
                           project_idx == snap.item_index[candidate_projects[p]]
                       IN  /\ Len(similar) > 0
                           /\ \/ snap.user_item_matrix = None
                              \/ \E n \in 1..Len(similar) :
                                    \/ similar[n] > Len(snap.user_item_matrix[1])
                                    \/ project_idx > Len(snap.user_item_matrix[1][similar[n]])

\* The loop's pass with 0 in place of the neutral score where no neighbour counts.
CollabScoreNeutralZero(snap, similarity_scores, similar_user_indices, project_id) ==
    IF project_id \notin DOMAIN snap.item_index THEN R(1, 2)
    ELSE LET project_idx == snap.item_index[project_id]
             Inter(n)    == snap.user_item_matrix[1][n][project_idx]
             Num(n)      == IF Inter(n) > 0 THEN similarity_scores[n] * Inter(n) ELSE 0
             Den(n)      == IF Inter(n) > 0 THEN similarity_scores[n] ELSE 0
             numerator   == SumOver([k \in DOMAIN similar_user_indices |->
                                        Num(similar_user_indices[k])], 1)
             denominator == SumOver([k \in DOMAIN similar_user_indices |->
                                        Den(similar_user_indices[k])], 1)
         IN  IF denominator > 0
             THEN RMin(RDiv(R(numerator, denominator), R(10, 1)), R(1, 1))
             ELSE R(0, 1)

\* The loop's pass without the min(..., 1.0) of line 141.
CollabScoreUnclamped(snap, similarity_scores, similar_user_indices, project_id) ==
    IF project_id \notin DOMAIN snap.item_index THEN R(1, 2)
    ELSE LET project_idx == snap.item_index[project_id]
             Inter(n)    == snap.user_item_matrix[1][n][project_idx]
             Num(n)      == IF Inter(n) > 0 THEN similarity_scores[n] * Inter(n) ELSE 0
             Den(n)      == IF Inter(n) > 0 THEN similarity_scores[n] ELSE 0
             numerator   == SumOver([k \in DOMAIN similar_user_indices |->
                                        Num(similar_user_indices[k])], 1)
             denominator == SumOver([k \in DOMAIN similar_user_indices |->
                                        Den(similar_user_indices[k])], 1)
         IN  IF denominator > 0
             THEN RDiv(R(numerator, denominator), R(10, 1))
             ELSE R(1, 2)

\* One pass of the loop of calculate_collaborative_scores: a project's score.
CollabScore(snap, similarity_scores, similar_user_indices, project_id) ==
    IF project_id \notin DOMAIN snap.item_index THEN R(1, 2)
    ELSE LET project_idx == snap.item_index[project_id]
             Inter(n)    == snap.user_item_matrix[1][n][project_idx]
             Num(n)      == IF Inter(n) > 0 THEN similarity_scores[n] * Inter(n) ELSE 0
             Den(n)      == IF Inter(n) > 0 THEN similarity_scores[n] ELSE 0
             numerator   == SumOver([k \in DOMAIN similar_user_indices |->
                                        Num(similar_user_indices[k])], 1)
             denominator == SumOver([k \in DOMAIN similar_user_indices |->
                                        Den(similar_user_indices[k])], 1)
         IN  IF denominator > 0
             THEN RMin(RDiv(R(numerator, denominator), R(10, 1)), R(1, 1))
             ELSE R(1, 2)

\* ProjectRecommendationEngine.calculate_collaborative_scores (where it returns).
CollabScores(snap, user_id, candidate_projects, top_k_similar) ==
    LET ids == {candidate_projects[i] : i \in 1..Len(candidate_projects)}
    IN  IF CollabIsColdStart(snap, user_id)
        THEN [project_id \in ids |-> R(1, 2)]
        ELSE LET similarity_scores == snap.similarity_model[1][snap.user_index[user_id]]
                 similar == SimilarUserIndices(similarity_scores, top_k_similar)
             IN  [project_id \in ids |->
                    CollabScore(snap, similarity_scores, similar, project_id)]

\* ------------------------------------------------- ranking (all three paths)

\* An explanation string: its fixed text and the numbers formatted into it.
Note(text, args) == [text |-> text, args |-> args]

\* list.sort(key=relevance_score, reverse=True): descending, and stable, so
\* equal keys keep their order in the list.
RECURSIVE SortFrom(_, _)
SortFrom(recs, remaining) ==
    IF remaining = {} THEN <<>>
    ELSE LET i == CHOOSE i \in remaining :
                    \A j \in remaining :
                        \/ recs[i].relevance_score > recs[j].relevance_score
                        \/ (recs[i].relevance_score = recs[j].relevance_score /\ i <= j)
         IN  <<recs[i]>> \o SortFrom(recs, remaining \ {i})

\* A sort that is descending but reverses the order of equal keys: an
\* ascending stable sort followed by reversing the list.
RECURSIVE SortFromReversingTies(_, _)
SortFromReversingTies(recs, remaining) ==
    IF remaining = {} THEN <<>>
    ELSE LET i == CHOOSE i \in remaining :
                    \A j \in remaining :
                        \/ recs[i].relevance_score > recs[j].relevance_score
                        \/ (recs[i].relevance_score = recs[j].relevance_score /\ i >= j)
         IN  <<recs[i]>> \o SortFromReversingTies(recs, remaining \ {i})

SortReversingTies(recs) == SortFromReversingTies(recs, 1..Len(recs))

\* A sort in ascending order of relevance.
SortAscending(recs) == Reverse(SortFromReversingTies(recs, 1..Len(recs)))

SortByRelevance(recs) == SortFrom(recs, 1..Len(recs))

\* rec["rank_position"] = idx + 1 (idx is 0-based in the source).
WithRank(rec, position) ==
    [k \in DOMAIN rec \cup {"rank_position"} |->
        IF k = "rank_position" THEN position ELSE rec[k]]

\* Ranks that start at 0.
RankAndTruncateFromZero(recs, limit) ==
    [i \in 1..Min2(limit, Len(recs)) |-> WithRank(recs[i], i - 1)]

\* for idx, rec in enumerate(recommendations[:limit]): rec["rank_position"] = idx + 1
\* return recommendations[:limit]                                  (limit >= 1)
RankAndTruncate(recs, limit) ==
    [i \in 1..Min2(limit, Len(recs)) |-> WithRank(recs[i], i)]

\* ------------------------------------------ ProjectRecommendationEngine

\* Skill notes whose "Strong" tier starts at 0.7 itself.
SkillNotesFromSeventy(skill_match_bp, percent) ==
    IF skill_match_bp >= 7000 THEN <<Note("Strong skill match (N%)", <<percent>>)>>
    ELSE IF skill_match_bp > 5000 THEN <<Note("Good skill match (N%)", <<percent>>)>>
    ELSE <<>>

\* The explanation notes of each rule, by rule.
SkillNotes(skill_match_bp, percent) ==
    IF skill_match_bp > 7000 THEN <<Note("Strong skill match (N%)", <<percent>>)>>
    ELSE IF skill_match_bp > 5000 THEN <<Note("Good skill match (N%)", <<percent>>)>>
    ELSE <<>>

\* An explanation that lists the experience note before the budget note.
GenerateExplanationExperienceFirst(content_breakdown, collab_score) ==
    LET skill_match      == Get(content_breakdown, "skill_match", 0)
        budget_fit       == Get(content_breakdown, "budget_fit", 0)
        experience_match == Get(content_breakdown, "experience_match", 0)
        recency          == Get(content_breakdown, "recency_score", 0)
        explanation ==
            SkillNotes(skill_match, skill_match \div 100)
            \o (IF experience_match >= 7000
                THEN <<Note("Project complexity matches your experience", <<>>)>> ELSE <<>>)
            \o (IF budget_fit > 8000
                THEN <<Note("Budget aligns with your rate", <<>>)>> ELSE <<>>)
            \o (IF RLt(R(7, 10), collab_score)
                THEN <<Note("Developers with similar profiles have applied", <<>>)>> ELSE <<>>)
            \o (IF recency >= 10000
                THEN <<Note("Recently posted project", <<>>)>> ELSE <<>>)
    IN  IF explanation = <<>> THEN <<Note("Matches your general profile", <<>>)>>
        ELSE explanation

\* The notes _generate_explanation collects before it looks for an empty list;
\* the breakdown holds rounded scores, collab_score is the unrounded float.
ExplanationNotes(content_breakdown, collab_score) ==
    LET skill_match      == Get(content_breakdown, "skill_match", 0)
        budget_fit       == Get(content_breakdown, "budget_fit", 0)
        experience_match == Get(content_breakdown, "experience_match", 0)
        recency          == Get(content_breakdown, "recency_score", 0)
    IN  SkillNotes(skill_match, skill_match \div 100)
        \o (IF budget_fit > 8000
            THEN <<Note("Budget aligns with your rate", <<>>)>> ELSE <<>>)
        \o (IF experience_match >= 7000
            THEN <<Note("Project complexity matches your experience", <<>>)>> ELSE <<>>)
        \o (IF RLt(R(7, 10), collab_score)
            THEN <<Note("Developers with similar profiles have applied", <<>>)>> ELSE <<>>)
        \o (IF recency >= 10000
            THEN <<Note("Recently posted project", <<>>)>> ELSE <<>>)

\* An explanation without the fallback note.
GenerateExplanationNoFallback(content_breakdown, collab_score) ==
    ExplanationNotes(content_breakdown, collab_score)

\* ProjectRecommendationEngine._generate_explanation.
GenerateExplanation(content_breakdown, collab_score) ==
    LET explanation == ExplanationNotes(content_breakdown, collab_score)
    IN  IF explanation = <<>> THEN <<Note("Matches your general profile", <<>>)>>
        ELSE explanation

\* hybrid_weights scaled to sum to 1 (the default pair is left as it is).
HybridWeightsNormalised(hybrid_weights) ==
    IF hybrid_weights = None
    THEN [collaborative |-> R(6, 10), content |-> R(4, 10)]
    ELSE LET given == hybrid_weights[1]
             total == RAdd(given["collaborative"], given["content"])
         IN  [key \in DOMAIN given |-> RDiv(given[key], total)]

\* hybrid_weights as generate_project_recommendations uses it.
HybridWeights(hybrid_weights) ==
    IF hybrid_weights = None
    THEN [collaborative |-> R(6, 10), content |-> R(4, 10)]
    ELSE hybrid_weights[1]

\* generate_project_recommendations raises: in a scorer, or the KeyError of a
\* weight dict without one of its two keys.
GenerateProjectRecommendationsRaises(snap, developer_id, developer_profile, candidate_projects, hybrid_weights) ==
    \/ CollabScoresRaise(snap, developer_id,
                         [i \in 1..Len(candidate_projects) |-> candidate_projects[i]["id"]],
                         TopKSimilar)
    \/ ContentScoresRaise(developer_profile, candidate_projects)
    \/ /\ Len(candidate_projects) > 0
       /\ {"collaborative", "content"} \ DOMAIN HybridWeights(hybrid_weights) # {}

\* The list generate_project_recommendations builds before it sorts.
ProjectRecommendationList(snap, developer_id, developer_profile, candidate_projects, hybrid_weights, today) ==
    LET weights == HybridWeights(hybrid_weights)
        project_ids == [i \in 1..Len(candidate_projects) |-> candidate_projects[i]["id"]]
        collaborative_scores == CollabScores(snap, developer_id, project_ids, TopKSimilar)
        content_scores == ContentScores(developer_profile, candidate_projects, today)
    IN  [i \in 1..Len(candidate_projects) |->
            LET project_id        == candidate_projects[i]["id"]
                collab_score      == collaborative_scores[project_id]
                content_breakdown == content_scores[project_id]
                content_score     == content_breakdown["composite_score"]
                relevance_score   == RAdd(RMul(collab_score, weights["collaborative"]),
                                          RMul(Bp(content_score), weights["content"]))
            IN  [project_id             |-> project_id,
                 relevance_score        |-> Round4(relevance_score),
                 collaborative_score    |-> Round4(collab_score),
                 content_score          |-> content_score,
                 skill_match_score      |-> content_breakdown["skill_match"],
                 budget_fit_score       |-> content_breakdown["budget_fit"],
                 experience_match_score |-> content_breakdown["experience_match"],
                 recency_score          |-> content_breakdown["recency_score"],
                 explanation            |-> GenerateExplanation(content_breakdown, collab_score),
                 model_version          |-> snap.model_version]]

\* ProjectRecommendationEngine.generate_project_recommendations (where it returns).
GenerateProjectRecommendations(snap, developer_id, developer_profile, candidate_projects, limit, hybrid_weights, today) ==
    RankAndTruncate(
        SortByRelevance(
            ProjectRecommendationList(snap, developer_id, developer_profile,
                                      candidate_projects, hybrid_weights, today)),
        limit)

\* ------------------------------------------- TalentRecommendationEngine

\* TalentRecommendationEngine._calculate_budget_alignment.
TalentBudgetAlignment(hourly_rate, budget_range) ==
    IF DOMAIN budget_range = {} THEN R(1, 2)
    ELSE LET budget_min == Get(budget_range, "min", 0)
             unbounded  == "max" \notin DOMAIN budget_range
         IN  IF budget_min <= hourly_rate /\ (unbounded \/ hourly_rate <= budget_range["max"])
             THEN R(1, 1)
             ELSE IF hourly_rate < budget_min THEN R(8, 10)
             ELSE RMax(RMul(R(budget_range["max"], hourly_rate), R(6, 10)), R(2, 10))

\* _calculate_reputation_score raises TypeError: arithmetic on a None held
\* under the average_rating or completion_rate key.
ReputationScoreRaises(developer) ==
    \/ Get(developer, "average_rating", Some(R(4, 1))) = None
    \/ Get(developer, "completion_rate", Some(R(8, 10))) = None

\* TalentRecommendationEngine._calculate_reputation_score (where it returns).
ReputationScore(developer) ==
    LET avg_rating      == Get(developer, "average_rating", Some(R(4, 1)))[1]
        total_reviews   == Get(developer, "total_reviews", 0)
        completion_rate == Get(developer, "completion_rate", Some(R(8, 10)))[1]
        rating_score    == RDiv(RSub(avg_rating, R(1, 1)), R(4, 1))
        review_credibility == RMin(R(total_reviews, 20), R(1, 1))
        reputation      == RAdd(RAdd(RMul(rating_score, R(6, 10)),
                                     RMul(completion_rate, R(3, 10))),
                                RMul(review_credibility, R(1, 10)))
    IN  RMin(reputation, R(1, 1))

\* TalentRecommendationEngine._calculate_availability_score.
AvailabilityScore(developer) ==
    LET availability_status == Get(developer, "availability_status", Some("unknown"))
    IN  IF availability_status = Some("available") THEN R(1, 1)
        ELSE IF availability_status = Some("partially_available") THEN R(7, 10)
        ELSE IF availability_status = Some("busy") THEN R(3, 10)
        ELSE R(1, 2)

\* f"{avg_rating:.1f}": the rating in tenths, rounded.
OneDecimal(r) == Round4(r) \div 1000 + (IF Round4(r) % 1000 >= 500 THEN 1 ELSE 0)

\* TalentRecommendationEngine._generate_talent_explanation (unrounded scores).
GenerateTalentExplanation(skill_match, experience_match, budget_fit, reputation, developer) ==
    LET explanation ==
            (IF RLt(R(7, 10), skill_match)
             THEN <<Note("Strong skill match (N%)", <<Percent(skill_match)>>)>> ELSE <<>>)
            \o (IF RLe(R(7, 10), experience_match)
                THEN <<Note("Experience level matches project complexity", <<>>)>> ELSE <<>>)
            \o (IF RLt(R(8, 10), budget_fit)
                THEN <<Note("Rate within your budget", <<>>)>> ELSE <<>>)
            \o (IF RLt(R(8, 10), reputation)
                THEN <<Note("Highly rated (R/5.0)",
                            <<OneDecimal(Get(developer, "average_rating", Some(R(4, 1)))[1])>>)>>
                ELSE <<>>)
            \o (IF Get(developer, "availability_status", None) = Some("available")
                THEN <<Note("Currently available", <<>>)>> ELSE <<>>)
    IN  IF explanation = <<>> THEN <<Note("Matches project requirements", <<>>)>>
        ELSE explanation

\* generate_talent_recommendations raises (in the reputation score).
GenerateTalentRecommendationsRaises(project, candidate_developers) ==
    \E i \in 1..Len(candidate_developers) : ReputationScoreRaises(candidate_developers[i])

\* The list generate_talent_recommendations builds before it sorts.
TalentRecommendationList(model_version, project, candidate_developers) ==
    LET required_skills    == Get(project, "required_skills", {})
        project_complexity == Get(project, "complexity_level", "medium")
        budget_range       == Get(project, "budget_range", <<>>)
    IN  [i \in 1..Len(candidate_developers) |->
            LET developer        == candidate_developers[i]
                skill_match      == SkillMatch(Get(developer, "skills", {}), required_skills)
                experience_match == ExperienceFit(Get(developer, "experience_level", "mid"),
                                                  project_complexity)
                budget_fit       == TalentBudgetAlignment(Get(developer, "hourly_rate", 50),
                                                          budget_range)
                reputation_score == ReputationScore(developer)
                availability_score == AvailabilityScore(developer)
                relevance_score  ==
                    RAdd(RAdd(RAdd(RAdd(RMul(skill_match, R(35, 100)),
                                        RMul(experience_match, R(20, 100))),
                                   RMul(budget_fit, R(20, 100))),
                              RMul(reputation_score, R(15, 100))),
                         RMul(availability_score, R(10, 100)))
            IN  [developer_user_id      |-> developer["user_id"],
                 relevance_score        |-> Round4(relevance_score),
                 skill_match_score      |-> Round4(skill_match),
                 experience_match_score |-> Round4(experience_match),
                 budget_fit_score       |-> Round4(budget_fit),
                 reputation_score       |-> Round4(reputation_score),
                 availability_score     |-> Round4(availability_score),
                 explanation            |-> GenerateTalentExplanation(
                                                skill_match, experience_match, budget_fit,
                                                reputation_score, developer),
                 model_version          |-> model_version]]

\* TalentRecommendationEngine.generate_talent_recommendations (where it returns).
GenerateTalentRecommendations(model_version, project, candidate_developers, limit) ==
    RankAndTruncate(
        SortByRelevance(TalentRecommendationList(model_version, project, candidate_developers)),
        limit)

\* ------------------------------------------------- ColdStartRecommender

\* The version label of every cold-start result.
ColdStartVersion == "cold_start_v1"

\* The cold-start list with the popularity term left at count / 50.
ColdStartRecommendationListUnclamped(popular, developer_profile) ==
    LET dev_skills == Get(developer_profile, "skills", {})
    IN  [i \in 1..Len(popular) |->
            LET project           == popular[i]
                skill_match       == SkillMatch(dev_skills, Get(project, "required_skills", {}))
                application_count == Get(project, "application_count", 0)
                popularity_score  == R(application_count, 50)
                relevance_score   == RAdd(RMul(popularity_score, R(7, 10)),
                                          RMul(skill_match, R(3, 10)))
            IN  [project_id        |-> project["id"],
                 relevance_score   |-> Round4(relevance_score),
                 skill_match_score |-> Round4(skill_match),
                 explanation       |-> <<Note("Popular project on the platform", <<>>),
                                         Note("Matches N% of your skills",
                                              <<Percent(skill_match)>>)>>,
                 model_version     |-> ColdStartVersion]]

\* The list get_cold_start_project_recommendations builds before it sorts.
ColdStartRecommendationList(popular, developer_profile) ==
    LET dev_skills == Get(developer_profile, "skills", {})
    IN  [i \in 1..Len(popular) |->
            LET project           == popular[i]
                skill_match       == SkillMatch(dev_skills, Get(project, "required_skills", {}))
                application_count == Get(project, "application_count", 0)
                popularity_score  == RMin(R(application_count, 50), R(1, 1))
                relevance_score   == RAdd(RMul(popularity_score, R(7, 10)),
                                          RMul(skill_match, R(3, 10)))
            IN  [project_id        |-> project["id"],
                 relevance_score   |-> Round4(relevance_score),
                 skill_match_score |-> Round4(skill_match),
                 explanation       |-> <<Note("Popular project on the platform", <<>>),
                                         Note("Matches N% of your skills",
                                              <<Percent(skill_match)>>)>>,
                 model_version     |-> ColdStartVersion]]

\* ColdStartRecommender.get_cold_start_project_recommendations.
GetColdStartProjectRecommendations(popular, developer_profile, limit) ==
    RankAndTruncate(SortByRelevance(ColdStartRecommendationList(popular, developer_profile)),
                    limit)

\* ------------------------------------------------------- sample inputs

\* Project dicts as Project.dict() gives them (every key present).
P1 == [id |-> "p1", required_skills |-> {"python", "react", "aws"},
       complexity_level |-> "medium", budget_range |-> [min |-> 80, max |-> 120],
       project_type |-> Some("web"), is_remote |-> Some(TRUE),
       industry |-> Some("fintech"), created_at |-> Some(0)]

P2 == [id |-> "p2", required_skills |-> {},
       complexity_level |-> "high", budget_range |-> [fixed |-> 4000, estimated_hours |-> 40],
       project_type |-> None, is_remote |-> Some(FALSE),
       industry |-> None, created_at |-> None]

P3 == [id |-> "p3", required_skills |-> {"python"},
       complexity_level |-> "expert", budget_range |-> [min |-> 150],
       project_type |-> Some("mobile"), is_remote |-> Some(FALSE),
       industry |-> Some("health"), created_at |-> Some(-10)]

\* P1 under another id: its scores tie with P1's.
P4 == [P1 EXCEPT !["id"] = "p4"]

Projects == {P1, P2, P3, P4}

\* Developer dicts as DeveloperProfile.dict() gives them (every key present,
\* an omitted optional field as None).
D1 == [user_id |-> "d1", skills |-> {"python", "react"}, experience_level |-> "mid",
       hourly_rate |-> 100,
       preferences |-> Some([project_types |-> {"web"}, remote_preference |-> "remote_only"]),
       average_rating |-> Some(R(9, 2)), completion_rate |-> Some(R(9, 10)),
       total_projects_completed |-> Some(12), availability_status |-> Some("available")]

\* D1 under another id: its scores tie with D1's.
D2 == [D1 EXCEPT !["user_id"] = "d2"]

\* A profile that omits every optional field but availability_status.
D3 == [user_id |-> "d3", skills |-> {"python"}, experience_level |-> "senior",
       hourly_rate |-> 130, preferences |-> None,
       average_rating |-> None, completion_rate |-> None,
       total_projects_completed |-> None, availability_status |-> Some("available")]

D4 == [user_id |-> "d4", skills |-> {"java"}, experience_level |-> "junior",
       hourly_rate |-> 60,
       preferences |-> Some([industries |-> {"health"}]),
       average_rating |-> Some(R(3, 1)), completion_rate |-> Some(R(1, 2)),
       total_projects_completed |-> Some(0), availability_status |-> Some("busy")]

Developers == {D1, D2, D3, D4}

\* Popular-project dicts as set_popular_items receives them.
Pop1 == [id |-> "p1", required_skills |-> {"python", "react", "aws"}, application_count |-> 25]

Pop2 == [id |-> "p7", required_skills |-> {"java"}, application_count |-> 80]

\* Pop1 under another id.
Pop3 == [Pop1 EXCEPT !["id"] = "p8"]

PopularProjects == {Pop1, Pop2, Pop3}

\* The lists of at most n distinct elements of S.
RECURSIVE ListsOf(_, _)
ListsOf(S, n) ==
    IF n = 0 THEN {<<>>}
    ELSE LET shorter == ListsOf(S, n - 1)
         IN  shorter \cup
             {Append(l, x) : <<l, x>> \in
                 {pair \in shorter \X S :
                     /\ Len(pair[1]) = n - 1
                     /\ \A i \in 1..Len(pair[1]) : pair[1][i] # pair[2]}}

\* The model_version an engine is constructed with: "v1.0_" and the date.
InitVersion == "v1.0_20250102"

\* Two pickled model_data dicts as save_model writes them after training:
\* the similarity is the cosine of the matrix rows, in ten-thousandths.
SnapA == [similarity_model |-> Some(<< <<10000, 9600, 8000>>,
                                       <<9600, 10000, 6000>>,
                                       <<8000, 6000, 10000>> >>),
          user_item_matrix |-> Some(<< <<6, 8>>, <<8, 6>>, <<0, 10>> >>),
          user_index       |-> [d1 |-> 1, d2 |-> 2, d3 |-> 3],
          item_index       |-> [p1 |-> 1, p2 |-> 2],
          model_version    |-> "v1.0_20250101",
          saved_at         |-> "2025-01-01"]

SnapB == [similarity_model |-> Some(<< <<10000, 6000>>, <<6000, 10000>> >>),
          user_item_matrix |-> Some(<< <<5, 0>>, <<3, 4>> >>),
          user_index       |-> [d1 |-> 1, d2 |-> 2],
          item_index       |-> [p1 |-> 1, p3 |-> 2],
          model_version    |-> "v1.0_20250102",
          saved_at         |-> "2025-01-02"]

Snapshots == {SnapA, SnapB}

\* ------------------------------------------------------ the model file

\* The keys load_model reads, in the order it assigns them.
LoadKeys == <<"similarity_model", "user_item_matrix", "user_index", "item_index",
              "model_version">>

\* The file at MODEL_PATH: absent, present but not unpicklable, or a pickled dict.
NoFile == [exists |-> FALSE, unpickles |-> FALSE, model_data |-> <<>>]

CorruptFile == [exists |-> TRUE, unpickles |-> FALSE, model_data |-> <<>>]

FileOf(model_data) == [exists |-> TRUE, unpickles |-> TRUE, model_data |-> model_data]

Without(dict, key) == [k \in DOMAIN dict \ {key} |-> dict[k]]

ValidFiles == {FileOf(snap) : snap \in Snapshots}

\* A pickled dict that lacks one of the keys load_model reads.
FilesLackingAKey ==
    {FileOf(Without(snap, LoadKeys[i])) : snap \in Snapshots, i \in 1..Len(LoadKeys)}

ModelFiles == {NoFile, CorruptFile} \cup ValidFiles \cup FilesLackingAKey

\* ------------------------------------- ProjectRecommendationEngine state

\* ProjectRecommendationEngine.__init__ (the fields a snapshot consists of).
InitEngine == [similarity_model |-> None,
               user_item_matrix |-> None,
               user_index       |-> <<>>,
               item_index       |-> <<>>,
               model_version    |-> InitVersion]

\* How many of load_model's assignments run before a key is found missing.
AssignmentsDone(model_data) ==
    IF \A i \in 1..Len(LoadKeys) : LoadKeys[i] \in DOMAIN model_data
    THEN Len(LoadKeys)
    ELSE (CHOOSE i \in 1..Len(LoadKeys) :
              /\ LoadKeys[i] \notin DOMAIN model_data
              /\ \A j \in 1..(i - 1) : LoadKeys[j] \in DOMAIN model_data) - 1

\* load_model raises: open() fails, pickle.load fails, or a key is missing.
LoadModelRaises(file) ==
    \/ ~file.exists
    \/ ~file.unpickles
    \/ AssignmentsDone(file.model_data) < Len(LoadKeys)

\* A save_model that writes the version tag of a new engine.
SaveModelDataFreshVersion(eng, saved_at) ==
    [key \in {"similarity_model", "user_item_matrix", "user_index", "item_index",
              "model_version", "saved_at"} |->
        IF key = "saved_at" THEN saved_at
        ELSE IF key = "model_version" THEN InitVersion ELSE eng[key]]

\* ProjectRecommendationEngine.save_model: the dict it pickles.
SaveModelData(eng, saved_at) ==
    [key \in {"similarity_model", "user_item_matrix", "user_index", "item_index",
              "model_version", "saved_at"} |->
        IF key = "saved_at" THEN saved_at ELSE eng[key]]

\* A load_model that assigns every field but model_version.
LoadModelKeepingVersion(eng, file) ==
    IF ~file.exists \/ ~file.unpickles THEN eng
    ELSE [field \in DOMAIN eng |->
            IF field # "model_version" /\ field \in DOMAIN file.model_data
            THEN file.model_data[field] ELSE eng[field]]

\* ProjectRecommendationEngine.load_model: the engine's fields when the call
\* ends, by return or by exception (the assignments made until then stay).
LoadModel(eng, file) ==
    IF ~file.exists \/ ~file.unpickles THEN eng
    ELSE LET done == AssignmentsDone(file.model_data)
         IN  [field \in DOMAIN eng |->
                IF \E i \in 1..done : LoadKeys[i] = field
                THEN file.model_data[field] ELSE eng[field]]

\* --------------------------------------------------------- the service

VARIABLES
    engine,            \* project_engine: its snapshot fields
    MODEL_LOADED,      \* api/main.py's global flag
    popular_projects,  \* cold_start_recommender.popular_projects
    model_file,        \* the file at MODEL_PATH
    phase,             \* "constructed" until startup_event has run, then "serving"
    now,               \* datetime.now(), as a day number
    request,           \* the score request received and not yet replaced
    response,          \* what the last step answered (NoResponse: nothing yet)
    hist,              \* what a client has observed: loads that succeeded,
                       \* the last tag a reload returned
    loader,            \* a thread inside load_model (engine used as a library)
    reader             \* a thread inside generate_project_recommendations

vars == <<engine, MODEL_LOADED, popular_projects, model_file, phase, now,
          request, response, hist, loader, reader>>

NoRequest == [op |-> "none"]

NoResponse == [op |-> "none", status |-> 0, by |-> "", body |-> <<>>, model_version |-> ""]

Response(op, status, by, body, model_version) ==
    [op |-> op, status |-> status, by |-> by, body |-> body, model_version |-> model_version]

Pending == request.op # "none" /\ response.op = "none"

IdleThreads == [pc |-> "idle"]

\* The state after the module of api/main.py is imported.
InitService ==
    /\ engine = InitEngine
    /\ MODEL_LOADED = FALSE
    /\ popular_projects = <<>>
    /\ phase = "constructed"
    /\ now = 0
    /\ request = NoRequest
    /\ response = NoResponse
    /\ hist = [loaded |-> FALSE, reload_tag |-> None]
    /\ loader = IdleThreads
    /\ reader = IdleThreads

\* startup_event: what it logs ("loaded", "load_failed", "not_found").
StartupOutcome(file) ==
    IF file.exists
    THEN IF LoadModelRaises(file) THEN "load_failed" ELSE "loaded"
    ELSE "not_found"

\* startup_event
StartupEvent ==
    /\ phase = "constructed"
    /\ phase' = "serving"
    /\ engine' = IF model_file.exists THEN LoadModel(engine, model_file) ELSE engine
    /\ MODEL_LOADED' = (StartupOutcome(model_file) = "loaded")
    /\ response' = Response("startup", 0, StartupOutcome(model_file), <<>>,
                            engine'.model_version)
    /\ hist' = [hist EXCEPT !.loaded = @ \/ StartupOutcome(model_file) = "loaded"]
    /\ request' = NoRequest
    /\ UNCHANGED <<popular_projects, model_file, now, loader, reader>>

\* reload_model: the HTTP status of its answer. The HTTPException(404) raised
\* inside the try block is an Exception: the handler's own except clause
\* catches it and raises HTTPException(500) in its place.
ReloadStatus(file) ==
    IF ~file.exists THEN 500
    ELSE IF LoadModelRaises(file) THEN 500
    ELSE 200

\* A reload that leaves MODEL_LOADED as it was.
FlagAfterReloadUnchanged(flag, file) == flag

\* reload_model: MODEL_LOADED when the handler ends.
FlagAfterReload(flag, file) ==
    IF file.exists /\ ~LoadModelRaises(file) THEN TRUE ELSE flag

\* reload_model
ReloadModel ==
    /\ phase = "serving"
    /\ ~Pending
    /\ engine' = IF model_file.exists THEN LoadModel(engine, model_file) ELSE engine
    /\ MODEL_LOADED' = FlagAfterReload(MODEL_LOADED, model_file)
    /\ response' = Response("reload", ReloadStatus(model_file), "", <<>>,
                            IF ReloadStatus(model_file) = 200
                            THEN engine'.model_version ELSE "")
    /\ hist' = IF ReloadStatus(model_file) = 200
               THEN [loaded |-> TRUE, reload_tag |-> Some(response'.model_version)]
               ELSE hist
    /\ request' = NoRequest
    /\ UNCHANGED <<popular_projects, model_file, phase, now, loader, reader>>

\* A scoring call that marks the engine as having scored.
EngineAfterScoringStamped(eng, req) == [eng EXCEPT !["model_version"] = "scored"]

\* The engine's fields when generate_project_recommendations ends, by return
\* or by exception: the call and the scorers it calls (collaborative, content,
\* explanation) assign no attribute of self.
EngineAfterScoring(eng, req) == eng

\* get_project_recommendations: which recommender the handler calls.
ProjectsAnsweredBy(flag) == IF flag THEN "hybrid" ELSE "cold_start"

\* get_project_recommendations with a fallback that scores the request's
\* candidates instead of the popular items.
ProjectsResponseFallbackOverCandidates(eng, flag, popular, req, today) ==
    IF ProjectsAnsweredBy(flag) = "hybrid"
    THEN IF GenerateProjectRecommendationsRaises(eng, req.developer_id, req.developer_profile,
                                                 req.candidate_projects, req.hybrid_weights)
         THEN Response("projects", 500, "hybrid", <<>>, "")
         ELSE Response("projects", 200, "hybrid",
                       GenerateProjectRecommendations(eng, req.developer_id,
                           req.developer_profile, req.candidate_projects, req.limit,
                           req.hybrid_weights, today),
                       "")
    ELSE Response("projects", 200, "cold_start",
                  GetColdStartProjectRecommendations(req.candidate_projects,
                                                     req.developer_profile, req.limit),
                  "")

\* get_project_recommendations: the handler's answer.
ProjectsResponse(eng, flag, popular, req, today) ==
    IF ProjectsAnsweredBy(flag) = "hybrid"
    THEN IF GenerateProjectRecommendationsRaises(eng, req.developer_id, req.developer_profile,
                                                 req.candidate_projects, req.hybrid_weights)
         THEN Response("projects", 500, "hybrid", <<>>, "")
         ELSE Response("projects", 200, "hybrid",
                       GenerateProjectRecommendations(eng, req.developer_id,
                           req.developer_profile, req.candidate_projects, req.limit,
                           req.hybrid_weights, today),
                       "")
    ELSE Response("projects", 200, "cold_start",
                  GetColdStartProjectRecommendations(popular, req.developer_profile, req.limit),
                  "")

\* get_project_recommendations
GetProjectRecommendations ==
    /\ phase = "serving"
    /\ Pending
    /\ request.op = "projects"
    /\ response' = ProjectsResponse(engine, MODEL_LOADED, popular_projects, request, now)
    /\ engine' = IF ProjectsAnsweredBy(MODEL_LOADED) = "hybrid"
                 THEN EngineAfterScoring(engine, request) ELSE engine
    /\ UNCHANGED <<MODEL_LOADED, popular_projects, model_file, phase, now,
                   request, hist, loader, reader>>

\* get_talent_recommendations: the handler's answer (talent_engine keeps the
\* model_version it was constructed with).
TalentResponse(req) ==
    IF GenerateTalentRecommendationsRaises(req.project, req.candidate_developers)
    THEN Response("talent", 500, "talent", <<>>, "")
    ELSE Response("talent", 200, "talent",
                  GenerateTalentRecommendations(InitVersion, req.project,
                                                req.candidate_developers, req.limit),
                  "")

\* get_talent_recommendations
GetTalentRecommendations ==
    /\ phase = "serving"
    /\ Pending
    /\ request.op = "talent"
    /\ response' = TalentResponse(request)
    /\ UNCHANGED <<engine, MODEL_LOADED, popular_projects, model_file, phase, now,
                   request, hist, loader, reader>>

\* A score request arrives (one at a time: the handlers are coroutines that
\* never await, so the event loop runs each to its end).
Receive(req) ==
    /\ phase = "serving"
    /\ request.op = "none"
    /\ request' = req
    /\ response' = NoResponse
    /\ UNCHANGED <<engine, MODEL_LOADED, popular_projects, model_file, phase, now,
                   hist, loader, reader>>

\* ColdStartRecommender.set_popular_items
SetPopularItems(projects) ==
    /\ ~Pending
    /\ popular_projects # projects
    /\ popular_projects' = projects
    /\ request' = NoRequest
    /\ response' = NoResponse
    /\ UNCHANGED <<engine, MODEL_LOADED, model_file, phase, now, hist, loader, reader>>

\* The environment replaces, damages or removes the file at MODEL_PATH (the
\* training script's save_model writes it).
WriteModelFile(file) ==
    /\ ~Pending
    /\ model_file # file
    /\ model_file' = file
    /\ request' = NoRequest
    /\ response' = NoResponse
    /\ UNCHANGED <<engine, MODEL_LOADED, popular_projects, phase, now, hist, loader, reader>>

\* The answer has been sent: the request is over.
Deliver ==
    /\ request.op # "none"
    /\ response.op # "none"
    /\ request' = NoRequest
    /\ response' = NoResponse
    /\ UNCHANGED <<engine, MODEL_LOADED, popular_projects, model_file, phase, now,
                   hist, loader, reader>>

\* ------------------------------------------------- the service's life cycle

ProjectsRequest(developer_profile, candidate_projects, limit, hybrid_weights) ==
    [op |-> "projects", developer_id |-> developer_profile["user_id"],
     developer_profile |-> developer_profile, candidate_projects |-> candidate_projects,
     limit |-> limit, hybrid_weights |-> hybrid_weights]

TalentRequest(project, candidate_developers, limit) ==
    [op |-> "talent", project |-> project, candidate_developers |-> candidate_developers,
     limit |-> limit]

\* The score requests of the life-cycle specification.
ServiceRequests ==
    {ProjectsRequest(D1, <<P1, P2, P3>>, 2, None),
     ProjectsRequest(D4, <<P3, P1>>, 1, None),
     TalentRequest(P1, <<D4, D1>>, 2)}

ServicePopularLists == {<<>>, <<Pop1, Pop2>>}

Init ==
    /\ InitService
    /\ model_file \in ModelFiles

Next ==
    \/ StartupEvent
    \/ ReloadModel
    \/ \E req \in ServiceRequests : Receive(req)
    \/ GetProjectRecommendations
    \/ GetTalentRecommendations
    \/ Deliver
    \/ \E projects \in ServicePopularLists : SetPopularItems(projects)
    \/ \E file \in ModelFiles : WriteModelFile(file)

\* The service from construction on: start-up, reloads, score requests, and
\* the model file changing under it.
Spec == Init /\ [][Next]_vars

\* ------------------------------------------------------ ranking at large

\* The score requests of the ranking specification.
RankProfiles == {D1, D3, D4}

RankRequests ==
    {ProjectsRequest(profile, candidates, limit, None) :
        profile \in RankProfiles,
        candidates \in ListsOf(Projects, MaxCand),
        limit \in 1..MaxLimit}
    \cup
    {TalentRequest(project, candidates, limit) :
        project \in {P1, P3},
        candidates \in ListsOf(Developers, MaxCand),
        limit \in 1..MaxLimit}

InitRank ==
    /\ InitService
    /\ model_file \in {NoFile, FileOf(SnapA)}

NextRank ==
    \/ StartupEvent
    \/ \E req \in RankRequests : Receive(req)
    \/ GetProjectRecommendations
    \/ GetTalentRecommendations
    \/ Deliver
    \/ \E projects \in ListsOf(PopularProjects, MaxCand) : SetPopularItems(projects)

\* The three ranking paths on every request of RankRequests, with and
\* without a loaded snapshot.
SpecRank == InitRank /\ [][NextRank]_vars

\* ------------------------------------- one engine used by two threads

\* Longest list of interaction events a training pass is given.
MaxEvents == 3

\* How many snapshot replacements (load_model or train_collaborative_model
\* calls) the replacing thread makes.
MaxWrites == 2

\* ------------------------------------------------------------ training

\* A weight map that counts events, whatever their type.
WeightMapCounting(interaction_type) == 1

\* _create_interaction_matrix: weight_map.
WeightMap(interaction_type) ==
    CASE interaction_type = "view"  -> 1
      [] interaction_type = "apply" -> 3
      [] interaction_type = "hire"  -> 5

\* The user and project ids of the events, in the order pandas sorts them.
EventUsers == <<"d1", "d2", "d3">>

EventItems == <<"p1", "p2">>

\* groupby(["user_id", "project_id"])["weight"].sum() for one group: the
\* weights of the group's events from position k on, added in event order.
RECURSIVE GroupWeight(_, _, _, _)
GroupWeight(events, k, user_id, project_id) ==
    IF k > Len(events) THEN 0
    ELSE (IF events[k].user_id = user_id /\ events[k].project_id = project_id
          THEN WeightMap(events[k].interaction_type) ELSE 0)
         + GroupWeight(events, k + 1, user_id, project_id)

\* _create_interaction_matrix: the DataFrame after unstack(fill_value=0), as
\* its row labels, its column labels and its cells.
CreateInteractionMatrix(events) ==
    LET observed(k) == \E e \in 1..Len(events) :
                           events[e].user_id = k \/ events[e].project_id = k
        users == SelectSeq(EventUsers, observed)
        items == SelectSeq(EventItems, observed)
    IN  [index   |-> users,
         columns |-> items,
         cells   |-> [r \in 1..Len(users) |->
                        [c \in 1..Len(items) |->
                            GroupWeight(events, 1, users[r], items[c])]]]

\* The largest c in lo..hi with c * c * norms <= 10000 * dot * dot.
RECURSIVE CosineBetween(_, _, _, _)
CosineBetween(lo, hi, dot, norms) ==
    IF lo = hi THEN lo
    ELSE LET mid == (lo + hi + 1) \div 2
         IN  IF mid * mid * norms <= 10000 * dot * dot
             THEN CosineBetween(mid, hi, dot, norms)
             ELSE CosineBetween(lo, mid - 1, dot, norms)

Dot(a, b) == SumOver([c \in 1..Len(a) |-> a[c] * b[c]], 1)

\* sklearn's cosine_similarity of the rows, in ten-thousandths (cut to the
\* hundredth; a row of zeros has similarity 0 to every row).
CosineSimilarity(cells) ==
    [a \in 1..Len(cells) |->
        [b \in 1..Len(cells) |->
            IF Dot(cells[a], cells[a]) * Dot(cells[b], cells[b]) = 0 THEN 0
            ELSE 100 * CosineBetween(0, 100, Dot(cells[a], cells[b]),
                                     Dot(cells[a], cells[a]) * Dot(cells[b], cells[b]))]]

\* {label: idx for idx, label in enumerate(labels)}
IndexOf(labels) ==
    [label \in {labels[k] : k \in 1..Len(labels)} |->
        CHOOSE k \in 1..Len(labels) : labels[k] = label]

\* train_collaborative_model raises: cosine_similarity rejects a matrix
\* without rows (zero events).
TrainCollaborativeModelRaises(events) == Len(CreateInteractionMatrix(events).index) = 0

\* ProjectRecommendationEngine.train_collaborative_model: the engine's fields
\* when the call ends, by return or by exception. The matrix is assigned
\* before the similarity is computed.
TrainCollaborativeModel(eng, events) ==
    LET matrix == CreateInteractionMatrix(events)
    IN  IF TrainCollaborativeModelRaises(events)
        THEN [eng EXCEPT !["user_item_matrix"] = Some(matrix.cells)]
        ELSE [eng EXCEPT !["user_item_matrix"] = Some(matrix.cells),
                         !["similarity_model"] = Some(CosineSimilarity(matrix.cells)),
                         !["user_index"]       = IndexOf(matrix.index),
                         !["item_index"]       = IndexOf(matrix.columns)]

\* The fields train_collaborative_model assigns, in the order it assigns them.
TrainKeys == <<"user_item_matrix", "similarity_model", "user_index", "item_index">>

\* The engine as a load_model that returned leaves it.
Loaded(snap) == LoadModel(InitEngine, FileOf(snap))

\* The snapshot the replacing thread's call is building: the engine's fields
\* once every assignment of the call has run.
Target(eng, thread) ==
    [field \in DOMAIN eng |->
        IF \E i \in 1..Len(thread.keys) : thread.keys[i] = field
        THEN thread.model_data[field] ELSE eng[field]]

\* The snapshots the engine has held or is about to hold whole.
WholeSnapshots ==
    loader.published \cup (IF loader.pc = "assign" THEN {Target(engine, loader)} ELSE {})

\* The fields a scoring call has read so far, as one snapshot record (a field
\* not read yet as a new engine has it).
SeenSnapshot(seen) ==
    [field \in DOMAIN InitEngine |->
        IF field \in DOMAIN seen THEN seen[field] ELSE InitEngine[field]]

ReadFields(seen, eng, fields) ==
    [field \in DOMAIN seen \cup fields |->
        IF field \in fields THEN eng[field] ELSE seen[field]]

\* The requests of the scoring thread.
ThreadRequests ==
    {ProjectsRequest(D1, <<P1, P2>>, 2, None),
     ProjectsRequest(D2, <<P3, P1>>, 2, None),
     ProjectsRequest(D4, <<P1>>, 1, None)}

InitThreads ==
    /\ engine \in {Loaded(snap) : snap \in Snapshots}
    /\ MODEL_LOADED = TRUE
    /\ popular_projects = <<>>
    /\ model_file \in ValidFiles
    /\ phase = "serving"
    /\ now = 0
    /\ request = NoRequest
    /\ response = NoResponse
    /\ hist = [loaded |-> TRUE, reload_tag |-> None]
    /\ loader = [pc |-> "idle", keys |-> <<>>, model_data |-> <<>>, next |-> 1,
                 calls |-> 0, published |-> {engine}]
    /\ reader = [pc |-> "idle", seen |-> <<>>]

\* save_model of a trainer's engine replaces the file.
SaveModel(snap) ==
    /\ model_file # FileOf(snap)
    /\ model_file' = FileOf(snap)
    /\ UNCHANGED <<engine, MODEL_LOADED, popular_projects, phase, now, request, response,
                   hist, loader, reader>>

\* load_model, up to its first assignment: the file is open and unpickled.
LoadModelOpen ==
    /\ loader.pc = "idle"
    /\ loader.calls < MaxWrites
    /\ ~LoadModelRaises(model_file)
    /\ loader' = [loader EXCEPT !.pc = "assign", !.keys = LoadKeys,
                                !.model_data = model_file.model_data,
                                !.next = 1, !.calls = @ + 1]
    /\ UNCHANGED <<engine, MODEL_LOADED, popular_projects, model_file, phase, now,
                   request, response, hist, reader>>

\* train_collaborative_model, up to its first assignment, on interaction data
\* that yield the matrix, similarity and indexes of a sample snapshot.
TrainCollaborativeModelBegin(snap) ==
    /\ loader.pc = "idle"
    /\ loader.calls < MaxWrites
    /\ loader' = [loader EXCEPT !.pc = "assign", !.keys = TrainKeys,
                                !.model_data = snap,
                                !.next = 1, !.calls = @ + 1]
    /\ UNCHANGED <<engine, MODEL_LOADED, popular_projects, model_file, phase, now,
                   request, response, hist, reader>>

\* One assignment "self.<field> = ..." of load_model or of
\* train_collaborative_model; the last one ends the call.
AssignField ==
    /\ loader.pc = "assign"
    /\ LET field == loader.keys[loader.next]
           last  == loader.next = Len(loader.keys)
       IN  /\ engine' = [engine EXCEPT ![field] = loader.model_data[field]]
           /\ loader' = [loader EXCEPT
                            !.pc = IF last THEN "idle" ELSE "assign",
                            !.next = IF last THEN 1 ELSE @ + 1,
                            !.published = IF last THEN @ \cup {engine'} ELSE @]
    /\ UNCHANGED <<MODEL_LOADED, popular_projects, model_file, phase, now,
                   request, response, hist, reader>>

\* generate_project_recommendations is called.
ScoreCall(req) ==
    /\ reader.pc \in {"idle", "done"}
    /\ request' = req
    /\ response' = NoResponse
    /\ reader' = [pc |-> "similarity", seen |-> <<>>]
    /\ UNCHANGED <<engine, MODEL_LOADED, popular_projects, model_file, phase, now,
                   hist, loader>>

\* calculate_collaborative_scores up to its loop: reads similarity_model and
\* user_index.
ScoreReadSimilarity ==
    /\ reader.pc = "similarity"
    /\ LET seen == ReadFields(reader.seen, engine, {"similarity_model", "user_index"})
       IN  reader' = [pc   |-> IF CollabIsColdStart(SeenSnapshot(seen), request.developer_id)
                               THEN "version" ELSE "matrix",
                      seen |-> seen]
    /\ UNCHANGED <<engine, MODEL_LOADED, popular_projects, model_file, phase, now,
                   request, response, hist, loader>>

\* The loop of calculate_collaborative_scores: reads item_index and
\* user_item_matrix.
ScoreReadMatrix ==
    /\ reader.pc = "matrix"
    /\ reader' = [pc   |-> "version",
                  seen |-> ReadFields(reader.seen, engine,
                                      {"item_index", "user_item_matrix"})]
    /\ UNCHANGED <<engine, MODEL_LOADED, popular_projects, model_file, phase, now,
                   request, response, hist, loader>>

\* The rest of generate_project_recommendations: reads model_version, builds,
\* sorts, ranks and returns the results (or raises).
ScoreFinish ==
    /\ reader.pc = "version"
    /\ LET seen == ReadFields(reader.seen, engine, {"model_version"})
       IN  /\ reader' = [pc |-> "done", seen |-> seen]
           /\ response' = ProjectsResponse(SeenSnapshot(seen), TRUE, popular_projects,
                                           request, now)
    /\ UNCHANGED <<engine, MODEL_LOADED, popular_projects, model_file, phase, now,
                   request, hist, loader>>

NextThreads ==
    \/ \E snap \in Snapshots : SaveModel(snap)
    \/ LoadModelOpen
    \/ \E snap \in Snapshots : TrainCollaborativeModelBegin(snap)
    \/ AssignField
    \/ \E req \in ThreadRequests : ScoreCall(req)
    \/ ScoreReadSimilarity
    \/ ScoreReadMatrix
    \/ ScoreFinish

\* One engine shared by a thread that replaces its snapshot and a thread that
\* scores; the threads take turns between the steps above, which is some of
\* the turns the interpreter lets them take.
SpecThreads == InitThreads /\ [][NextThreads]_vars

\* ------------------------------------------------- the scorers at large

\* Skill tags; a required-skill list is a prefix of them, a profile's skills a
\* window, so that every match k of n (n up to ten) and every way of
\* overlapping occurs.
SkillTags == <<"python", "react", "aws", "java", "go", "rust", "sql", "css", "html", "docker">>

Window(a, b) == {SkillTags[i] : i \in a..b}

RequiredSets == {Window(1, n) : n \in 0..Len(SkillTags)}

ProfileSets == {Window(a, b) : a \in 1..Len(SkillTags), b \in 0..Len(SkillTags)}

\* Inputs of the skill match: a profile's skills and a project's required skills.
SkillInputs ==
    [op : {"skill"}, skills : ProfileSets, required_skills : RequiredSets]

\* The three scoring paths on one profile and one project (or popular item)
\* that differ from D1, P1 and Pop1 in their skills only: the hybrid, the
\* talent and the cold-start result, in this order.
ApplySkill ==
    /\ request.op = "skill"
    /\ response.op = "none"
    /\ LET developer == [D1 EXCEPT !["skills"] = request.skills]
           project   == [P1 EXCEPT !["required_skills"] = request.required_skills]
           popular   == [Pop1 EXCEPT !["required_skills"] = request.required_skills]
       IN  response' =
             Response("skill", 200, "scorers",
                      <<ProjectRecommendationList(engine, "d1", developer, <<project>>,
                                                  None, now)[1],
                        TalentRecommendationList(InitVersion, project, <<developer>>)[1],
                        ColdStartRecommendationList(<<popular>>, developer)[1]>>,
                      "")
    /\ UNCHANGED <<engine, MODEL_LOADED, popular_projects, model_file, phase, now,
                   request, hist, loader, reader>>

\* Inputs of the budget fit: an hourly rate and a budget_range dict (empty, a
\* fixed amount with or without estimated hours, a range with or without
\* either end).
BudgetRates == {60, 80, 100, 120, 130}

FixedBudgets ==
    {[fixed |-> f] : f \in {0, 4000, 6000}}
    \cup {[fixed |-> f, estimated_hours |-> h] : f \in {0, 4000, 6000}, h \in {0, 40, 50}}

RangeBudgets ==
    {[min |-> lo] : lo \in {0, 80, 100}}
    \cup {[max |-> hi] : hi \in {100, 120}}
    \cup {[min |-> lo, max |-> hi] : lo \in {0, 80, 100}, hi \in {100, 120}}

BudgetRanges == {<<>>} \cup FixedBudgets \cup RangeBudgets

BudgetInputs ==
    [op : {"budget"}, hourly_rate : BudgetRates, budget_range : BudgetRanges]

\* What a scoring call that raised leaves in place of its result.
Raised(error) == [error |-> error]

\* The two scoring directions on a developer and a project that differ from
\* D1 and P1 in the hourly rate and the budget range only: the hybrid and the
\* talent result, in this order.
ApplyBudget ==
    /\ request.op = "budget"
    /\ response.op = "none"
    /\ LET developer == [D1 EXCEPT !["hourly_rate"] = request.hourly_rate]
           project   == [P1 EXCEPT !["budget_range"] = request.budget_range]
       IN  response' =
             Response("budget", 200, "scorers",
                      <<IF GenerateProjectRecommendationsRaises(engine, "d1", developer,
                                                                <<project>>, None)
                        THEN Raised("ZeroDivisionError")
                        ELSE ProjectRecommendationList(engine, "d1", developer, <<project>>,
                                                       None, now)[1],
                        TalentRecommendationList(InitVersion, project, <<developer>>)[1]>>,
                      "")
    /\ UNCHANGED <<engine, MODEL_LOADED, popular_projects, model_file, phase, now,
                   request, hist, loader, reader>>

\* Two more snapshots as training leaves them. SnapC: the interactions of SnapA
\* with every event seen half as often again (weights sum per user and
\* project), so a weighted average passes 10. SnapD: two users with no project
\* in common (cosine 0).
SnapC == [SnapA EXCEPT !["user_item_matrix"] = Some(<< <<9, 12>>, <<12, 9>>, <<0, 15>> >>),
                       !["model_version"]    = "v1.0_20250103",
                       !["saved_at"]         = "2025-01-03"]

SnapD == [similarity_model |-> Some(<< <<10000, 0>>, <<0, 10000>> >>),
          user_item_matrix |-> Some(<< <<5, 0>>, <<0, 3>> >>),
          user_index       |-> [d1 |-> 1, d2 |-> 2],
          item_index       |-> [p1 |-> 1, p2 |-> 2],
          model_version    |-> "v1.0_20250104",
          saved_at         |-> "2025-01-04"]

\* The engine states a collaborative scoring can meet: constructed, or loaded.
ScoreSnapshots == {InitEngine} \cup {Loaded(snap) : snap \in Snapshots \cup {SnapC, SnapD}}

CandidateLists == ListsOf({"p1", "p2", "p3", "p9"}, 2) \cup {<<"p1", "p1">>}

CollabInputs ==
    [op : {"collab"}, snapshot : ScoreSnapshots, user_id : {"d1", "d2", "d9"},
     candidate_projects : CandidateLists]

\* calculate_collaborative_scores on an engine state, a user and a candidate list.
ApplyCollab ==
    /\ request.op = "collab"
    /\ response.op = "none"
    /\ response' =
         Response("collab", 200, "scorers",
                  IF CollabScoresRaise(request.snapshot, request.user_id,
                                       request.candidate_projects, TopKSimilar)
                  THEN Raised("IndexError")
                  ELSE CollabScores(request.snapshot, request.user_id,
                                    request.candidate_projects, TopKSimilar),
                  request.snapshot.model_version)
    /\ UNCHANGED <<engine, MODEL_LOADED, popular_projects, model_file, phase, now,
                   request, hist, loader, reader>>

\* hybrid_weights of a request: absent, or a pair of floats of any sum.
WeightPairs ==
    {None} \cup
    {Some([collaborative |-> c, content |-> k]) :
        <<c, k>> \in {<<R(1, 1), R(0, 1)>>, <<R(1, 2), R(3, 10)>>, <<R(2, 1), R(1, 1)>>}}

HybridInputs ==
    [op : {"hybrid"}, snapshot : ScoreSnapshots, developer_id : {"d1", "d2", "d9"},
     developer_profile : {D1, D4}, project : {P1, P2, P3}, hybrid_weights : WeightPairs]

\* One developer and one project scored in both directions: the result of
\* generate_project_recommendations, then that of generate_talent_recommendations.
ApplyHybrid ==
    /\ request.op = "hybrid"
    /\ response.op = "none"
    /\ response' =
         Response("hybrid", 200, "scorers",
                  <<IF GenerateProjectRecommendationsRaises(
                          request.snapshot, request.developer_id, request.developer_profile,
                          <<request.project>>, request.hybrid_weights)
                    THEN Raised("Exception")
                    ELSE ProjectRecommendationList(
                             request.snapshot, request.developer_id,
                             request.developer_profile, <<request.project>>,
                             request.hybrid_weights, now)[1],
                    IF GenerateTalentRecommendationsRaises(request.project,
                                                           <<request.developer_profile>>)
                    THEN Raised("TypeError")
                    ELSE TalentRecommendationList(InitVersion, request.project,
                                                  <<request.developer_profile>>)[1]>>,
                  request.snapshot.model_version)
    /\ UNCHANGED <<engine, MODEL_LOADED, popular_projects, model_file, phase, now,
                   request, hist, loader, reader>>

\* Popular items: a required-skill list and an application count (or none).
ApplicationCounts == {0, 10, 25, 49, 50, 51, 80}

PopularItems ==
    {[id |-> "p1", required_skills |-> Window(1, n), application_count |-> c] :
        n \in {0, 1, 3, 5}, c \in ApplicationCounts}
    \cup {[id |-> "p1", required_skills |-> Window(1, n)] : n \in {0, 1, 3, 5}}

ColdInputs == [op : {"cold"}, skills : {Window(1, b) : b \in 0..5}, popular : PopularItems]

\* get_cold_start_project_recommendations on one popular item.
ApplyCold ==
    /\ request.op = "cold"
    /\ response.op = "none"
    /\ response' =
         Response("cold", 200, "scorers",
                  ColdStartRecommendationList(<<request.popular>>,
                                              [D1 EXCEPT !["skills"] = request.skills])[1],
                  ColdStartVersion)
    /\ UNCHANGED <<engine, MODEL_LOADED, popular_projects, model_file, phase, now,
                   request, hist, loader, reader>>

\* Ratings and completion rates that DeveloperProfile accepts (0..5 and 0..1).
AverageRatings == {R(0, 1), R(1, 2), R(1, 1), R(3, 1), R(5, 1)}

CompletionRates == {R(0, 1), R(1, 5), R(1, 1)}

FactorInputs ==
    [op : {"factors"}, developer_profile : {D1, D4}, project : {P1, P2, P3},
     average_rating : AverageRatings, completion_rate : CompletionRates]

\* The score breakdown of calculate_content_scores and the result of
\* generate_talent_recommendations for one developer and one project.
ApplyFactors ==
    /\ request.op = "factors"
    /\ response.op = "none"
    /\ LET developer == [request.developer_profile EXCEPT
                            !["average_rating"]  = Some(request.average_rating),
                            !["completion_rate"] = Some(request.completion_rate)]
       IN  response' =
             Response("factors", 200, "scorers",
                      <<ContentBreakdown(developer, request.project, now),
                        TalentRecommendationList(InitVersion, request.project,
                                                 <<developer>>)[1]>>,
                      "")
    /\ UNCHANGED <<engine, MODEL_LOADED, popular_projects, model_file, phase, now,
                   request, hist, loader, reader>>

\* Preference dicts: any of the three keys, each with a few values (a remote
\* preference outside the four known ones among them).
PreferenceKeys == {"project_types", "remote_preference", "industries"}

PreferenceDicts ==
    {[key \in keys |->
        CASE key = "project_types"     -> types
          [] key = "remote_preference" -> remote
          [] key = "industries"        -> industries] :
     keys \in SUBSET PreferenceKeys,
     types \in {{}, {"web"}, {"web", "mobile"}},
     remote \in {"remote_only", "onsite_only", "hybrid", "no_preference", "flexible"},
     industries \in {{"health"}}}

\* Projects as Project.dict() gives them: the three optional keys always
\* there, with a value or None.
PreferenceProjects ==
    {[P1 EXCEPT !["project_type"] = type, !["is_remote"] = remote, !["industry"] = industry] :
     type \in {None, Some("web"), Some("data")},
     remote \in {None, Some(TRUE), Some(FALSE)},
     industry \in {None, Some("health"), Some("fintech")}}

\* The trainer's evaluation scores {"id": pid} against a profile without
\* preferences.
PreferenceInputs ==
    [op : {"preference"}, preferences : PreferenceDicts, project : PreferenceProjects]
    \cup [op : {"preference"}, preferences : {<<>>}, project : {[id |-> "p1"]}]

\* _calculate_preference_match as calculate_content_scores calls it, and the
\* preference_match of the breakdown.
ApplyPreference ==
    /\ request.op = "preference"
    /\ response.op = "none"
    /\ response' =
         Response("preference", 200, "scorers",
                  [preference_match |-> PreferenceMatch(request.preferences, request.project),
                   reported |->
                       ContentBreakdown([D1 EXCEPT !["preferences"] = Some(request.preferences)],
                                        request.project, now)["preference_match"]],
                  "")
    /\ UNCHANGED <<engine, MODEL_LOADED, popular_projects, model_file, phase, now,
                   request, hist, loader, reader>>

\* datetime.now().isoformat() at the moment of a save.
SaveTimes == {"2025-01-05T10:00:00", "2025-01-06T11:30:00"}

\* An engine to save, an engine to load the written file into.
RoundTripInputs ==
    [op : {"roundtrip"}, saved : ScoreSnapshots, into : ScoreSnapshots, saved_at : SaveTimes]

\* save_model on one engine, then load_model of the written file on another:
\* the pickled dict and the second engine after the load.
ApplySaveThenLoad ==
    /\ request.op = "roundtrip"
    /\ response.op = "none"
    /\ LET model_data == SaveModelData(request.saved, request.saved_at)
       IN  response' =
             Response("roundtrip", 200, "engine",
                      [model_data |-> model_data,
                       raised     |-> LoadModelRaises(FileOf(model_data)),
                       loaded     |-> LoadModel(request.into, FileOf(model_data))],
                      request.saved.model_version)
    /\ UNCHANGED <<engine, MODEL_LOADED, popular_projects, model_file, phase, now,
                   request, hist, loader, reader>>

\* The moments (day numbers of datetime.now()) at which a request can run.
Moments == {0, 3, 7, 20, 40}

\* One score request and the moments of two executions of it.
TwiceInputs ==
    [op : {"twice"}, snapshot : ScoreSnapshots, developer_profile : {D1, D4},
     candidate_projects : {<<P1, P2, P3>>, <<P3, P1>>}, limit : {2},
     hybrid_weights : {None}, first : Moments, second : Moments]

\* generate_project_recommendations run twice on the same request and the
\* same engine state, at two moments: the two result lists.
ApplyTwice ==
    /\ request.op = "twice"
    /\ response.op = "none"
    /\ response' =
         Response("twice", 200, "hybrid",
                  [moment \in {request.first, request.second} |->
                      GenerateProjectRecommendations(
                          request.snapshot, request.developer_profile["user_id"],
                          request.developer_profile, request.candidate_projects,
                          request.limit, request.hybrid_weights, moment)],
                  request.snapshot.model_version)
    /\ UNCHANGED <<engine, MODEL_LOADED, popular_projects, model_file, phase, now,
                   request, hist, loader, reader>>

\* A snapshot as training leaves it when two users have the same interactions:
\* the cosine of d1 and d2 is 1.0, their self-similarity.
SnapT == [similarity_model |-> Some(<< <<10000, 10000, 3162>>,
                                       <<10000, 10000, 3162>>,
                                       <<3162, 3162, 10000>> >>),
          user_item_matrix |-> Some(<< <<3, 1>>, <<3, 1>>, <<0, 5>> >>),
          user_index       |-> [d1 |-> 1, d2 |-> 2, d3 |-> 3],
          item_index       |-> [p1 |-> 1, p2 |-> 2],
          model_version    |-> "v1.0_20250105",
          saved_at         |-> "2025-01-05"]

\* np.argsort of a row: every ascending order of its positions (the default
\* sort is not stable, so equal values come in an order numpy chooses).
ArgSortOrders(row) ==
    {order \in ListsOf(1..Len(row), Len(row)) :
        /\ Len(order) = Len(row)
        /\ \A i \in 1..(Len(row) - 1) : row[order[i]] <= row[order[i + 1]]}

\* A trained engine, a user of its index and a number of neighbours.
NeighbourInputs ==
    UNION {{[op |-> "neighbours", snapshot |-> Loaded(snap), user_id |-> user_id,
             top_k_similar |-> top_k_similar] :
                user_id \in DOMAIN snap.user_index,
                top_k_similar \in {1, 2, TopKSimilar}} :
           snap \in Snapshots \cup {SnapC, SnapD, SnapT}}

\* Lines 112-116 of calculate_collaborative_scores: similar_user_indices.
ApplyNeighbours ==
    /\ request.op = "neighbours"
    /\ response.op = "none"
    /\ LET similarity_scores ==
               request.snapshot.similarity_model[1][request.snapshot.user_index[request.user_id]]
       IN  \E order \in ArgSortOrders(similarity_scores) :
              response' =
                Response("neighbours", 200, "engine",
                         SubSeq(Reverse(order), 2,
                                Min2(request.top_k_similar + 1, Len(order))),
                         request.snapshot.model_version)
    /\ UNCHANGED <<engine, MODEL_LOADED, popular_projects, model_file, phase, now,
                   request, hist, loader, reader>>

\* Interaction events: rows of the DataFrame train_collaborative_model is given.
EventPool ==
    [user_id : {"d1", "d2"}, project_id : {"p1", "p2"},
     interaction_type : {"view", "apply", "hire"}]

EventLists == UNION {[1..n -> EventPool] : n \in 0..MaxEvents}

\* An engine (new, or holding a snapshot) and the events of a training pass.
TrainInputs ==
    [op : {"train"}, before : {InitEngine, Loaded(SnapA)}, events : EventLists]

\* train_collaborative_model on an engine: whether it raised, the engine when
\* the call ended, and the matrix _create_interaction_matrix built.
ApplyTrain ==
    /\ request.op = "train"
    /\ response.op = "none"
    /\ response' =
         Response("train", 200, "engine",
                  [raised |-> TrainCollaborativeModelRaises(request.events),
                   engine |-> TrainCollaborativeModel(request.before, request.events),
                   matrix |-> CreateInteractionMatrix(request.events)],
                  request.before.model_version)
    /\ UNCHANGED <<engine, MODEL_LOADED, popular_projects, model_file, phase, now,
                   request, hist, loader, reader>>

ScoreInputs ==
    SkillInputs \cup BudgetInputs \cup CollabInputs \cup HybridInputs \cup ColdInputs
        \cup FactorInputs \cup RoundTripInputs \cup PreferenceInputs
        \cup TrainInputs
        \cup NeighbourInputs
        \cup TwiceInputs

\* The engines as constructed, and one scorer input.
InitScore ==
    /\ engine = InitEngine
    /\ MODEL_LOADED = FALSE
    /\ popular_projects = <<>>
    /\ model_file = NoFile
    /\ phase = "constructed"
    /\ now = 0
    /\ request \in ScoreInputs
    /\ response = NoResponse
    /\ hist = [loaded |-> FALSE, reload_tag |-> None]
    /\ loader = IdleThreads
    /\ reader = IdleThreads

NextScore ==
    \/ ApplySkill
    \/ ApplyBudget
    \/ ApplyCollab
    \/ ApplyHybrid
    \/ ApplyCold
    \/ ApplyFactors
    \/ ApplyPreference
    \/ ApplySaveThenLoad
    \/ ApplyTwice
    \/ ApplyNeighbours
    \/ ApplyTrain

\* The scoring functions of the three engines, each applied to every input of
\* a bounded grid.
SpecScore == InitScore /\ [][NextScore]_vars

\* ------------------------------------------------------------- properties

\* The last step answered a score request with a result list.
Answered == response.op \in {"projects", "talent"} /\ response.status = 200

\* The list the answering recommender scored, in input order, before its sort.
Scored ==
    IF response.by = "cold_start"
    THEN ColdStartRecommendationList(popular_projects, request.developer_profile)
    ELSE IF response.by = "hybrid"
    THEN ProjectRecommendationList(engine, request.developer_id, request.developer_profile,
                                   request.candidate_projects, request.hybrid_weights, now)
    ELSE TalentRecommendationList(InitVersion, request.project, request.candidate_developers)

ResultId(rec) ==
    IF "project_id" \in DOMAIN rec THEN rec["project_id"] ELSE rec["developer_user_id"]

ReturnedIds == {ResultId(response.body[j]) : j \in 1..Len(response.body)}

\* C1 (as claimed): the fields a generate_project_recommendations call read
\* while load_model or train_collaborative_model ran all belong to one whole
\* snapshot, the one before a replacement or the one after it.
C1_ReaderSeesOneSnapshot ==
    reader.pc = "done" =>
        \E snap \in WholeSnapshots :
            \A field \in DOMAIN reader.seen : reader.seen[field] = snap[field]

\* C2 (as claimed): a load that fails, at start-up or in a reload, leaves every
\* field of the engine's snapshot as it was before the load.
C2_FailedLoadLeavesSnapshot ==
    [][(\/ (response'.op = "reload" /\ response'.status # 200)
        \/ (response'.op = "startup" /\ response'.by = "load_failed"))
       => engine' = engine]_vars

\* C3 (as claimed): a reload that succeeds returns the tag every later
\* projects-for-developer result carries, and that tag differs from the
\* model_version the service reported before the reload.
C3_ReloadChangesVersion ==
    [][/\ (response'.op = "reload" /\ response'.status = 200)
            => /\ response'.model_version = engine'.model_version
               /\ engine'.model_version # engine.model_version
       /\ (hist'.reload_tag # None /\ response'.op = "projects")
            => \A j \in 1..Len(response'.body) :
                    response'.body[j].model_version = hist'.reload_tag[1]]_vars

\* C3 (amended): a reload that succeeds returns the version tag held in the
\* file it loaded, and every projects-for-developer result produced after it
\* (until the next successful reload) carries that tag.
C3_ReloadTagCarried ==
    /\ (response.op = "reload" /\ response.status = 200)
         => /\ response.model_version = model_file.model_data["model_version"]
            /\ hist.reload_tag = Some(response.model_version)
    /\ (hist.reload_tag # None /\ response.op = "projects")
         => /\ response.by = "hybrid"
            /\ \A j \in 1..Len(response.body) :
                    response.body[j].model_version = hist.reload_tag[1]

\* C3's case: results produced after a reload that loaded SnapA.
C3_Witness ==
    /\ hist.reload_tag = Some(SnapA["model_version"])
    /\ response.op = "projects"
    /\ Len(response.body) > 0

\* C4: a projects-for-developer request is answered by the cold-start
\* recommender, every result tagged with the cold-start label, exactly when no
\* snapshot has been loaded; otherwise by the hybrid ranker, no result tagged
\* with that label.
C4_ColdStartIffNoSnapshot ==
    response.op = "projects" =>
        /\ response.by = "cold_start" <=> ~hist.loaded
        /\ response.by = "hybrid" <=> hist.loaded
        /\ response.by = "cold_start" =>
                \A j \in 1..Len(response.body) :
                    response.body[j].model_version = ColdStartVersion
        /\ response.by = "hybrid" =>
                \A j \in 1..Len(response.body) :
                    response.body[j].model_version # ColdStartVersion

\* C4's case: a cold-start answer that holds results.
C4_Witness ==
    /\ response.op = "projects"
    /\ ~hist.loaded
    /\ Len(response.body) > 0

\* C5 (as claimed): a reload asked for while the model file does not exist is
\* answered 404.
C5_MissingFileIs404 ==
    (response.op = "reload" /\ ~model_file.exists) => response.status = 404

\* C6: a ranking called with limit >= 1 on n candidates returns min(limit, n)
\* results, and the result at position j has rank_position j.
C6_RanksContiguous ==
    Answered =>
        /\ Len(response.body) = Min2(request.limit, Len(Scored))
        /\ \A j \in 1..Len(response.body) : response.body[j].rank_position = j

\* C6's case: a list cut to the limit.
C6_Witness ==
    /\ Answered
    /\ Len(Scored) > request.limit
    /\ Len(response.body) = request.limit
    /\ request.limit > 1

\* C7: relevance_score never increases from one rank to the next, and no
\* candidate cut off by the limit scores strictly above a returned one.
C7_ScoresDescend ==
    Answered =>
        /\ \A j \in 1..(Len(response.body) - 1) :
                response.body[j].relevance_score >= response.body[j + 1].relevance_score
        /\ \A i \in 1..Len(Scored) :
                ResultId(Scored[i]) \notin ReturnedIds =>
                    \A j \in 1..Len(response.body) :
                        Scored[i].relevance_score <= response.body[j].relevance_score

\* C7's case: scores that strictly descend, and a candidate cut off.
C7_Witness ==
    /\ Answered
    /\ Len(response.body) >= 2
    /\ response.body[1].relevance_score > response.body[2].relevance_score
    /\ \E i \in 1..Len(Scored) :
            /\ ResultId(Scored[i]) \notin ReturnedIds
            /\ Scored[i].relevance_score < response.body[Len(response.body)].relevance_score

\* C8: of two candidates with equal relevance_score, the one earlier in the
\* request's candidate list is ranked before the other (so if the later one is
\* returned, the earlier one is returned above it), in both directions.
C8_TiesKeepInputOrder ==
    (Answered /\ response.by \in {"hybrid", "talent"}) =>
        \A i \in 1..Len(Scored) : \A k \in (i + 1)..Len(Scored) :
            Scored[i].relevance_score = Scored[k].relevance_score =>
                \A q \in 1..Len(response.body) :
                    ResultId(response.body[q]) = ResultId(Scored[k]) =>
                        \E p \in 1..(q - 1) :
                            ResultId(response.body[p]) = ResultId(Scored[i])

\* C8's case: two tied candidates that the sort moved above a weaker one
\* listed before them.
C8_Witness ==
    /\ Answered
    /\ response.by = "talent"
    /\ Len(Scored) = 3
    /\ Scored[1].relevance_score < Scored[2].relevance_score
    /\ Scored[2].relevance_score = Scored[3].relevance_score
    /\ Len(response.body) >= 2

\* The fallback note of the direction that produced a result.
Fallback(rec) ==
    IF "project_id" \in DOMAIN rec THEN Note("Matches your general profile", <<>>)
    ELSE Note("Matches project requirements", <<>>)

\* No explanation rule fires on the scores a result reports.
NoRuleFires(rec) ==
    IF "project_id" \in DOMAIN rec
    THEN /\ rec.skill_match_score <= 5000
         /\ rec.budget_fit_score <= 8000
         /\ rec.experience_match_score < 7000
         /\ rec.collaborative_score <= 7000
         /\ rec.recency_score < 10000
    ELSE /\ rec.skill_match_score <= 7000
         /\ rec.experience_match_score < 7000
         /\ rec.budget_fit_score <= 8000
         /\ rec.reputation_score <= 8000
         /\ rec.availability_score < 10000

\* C9: every result of every ranking path carries at least one explanation
\* note; when no rule fires on its scores the explanation is the one fallback
\* note of its direction, and the fallback never stands beside another note.
C9_ExplanationNeverEmpty ==
    Answered =>
        \A j \in 1..Len(response.body) :
            LET rec == response.body[j]
            IN  /\ Len(rec.explanation) >= 1
                /\ response.by # "cold_start" =>
                        /\ NoRuleFires(rec) => rec.explanation = <<Fallback(rec)>>
                        /\ (\E a \in 1..Len(rec.explanation) :
                                rec.explanation[a] = Fallback(rec))
                            => rec.explanation = <<Fallback(rec)>>

\* C9's case: a hybrid result on whose scores no rule fires.
C9_Witness ==
    /\ Answered
    /\ response.by = "hybrid"
    /\ \E j \in 1..Len(response.body) : NoRuleFires(response.body[j])

\* The place of a note in the order skill, budget, experience, collaborative,
\* freshness; 0 for a note of no such rule.
RuleRank(note) ==
    IF note.text \in {"Strong skill match (N%)", "Good skill match (N%)"} THEN 1
    ELSE IF note.text \in {"Budget aligns with your rate", "Rate within your budget"} THEN 2
    ELSE IF note.text \in {"Project complexity matches your experience",
                           "Experience level matches project complexity"} THEN 3
    ELSE IF note.text = "Developers with similar profiles have applied" THEN 4
    ELSE IF note.text = "Recently posted project" THEN 5
    ELSE 0

\* The place of a note in the order skill, experience, budget, reputation,
\* availability; 0 for a note of no such rule.
TalentRuleRank(note) ==
    IF note.text = "Strong skill match (N%)" THEN 1
    ELSE IF note.text = "Experience level matches project complexity" THEN 2
    ELSE IF note.text = "Rate within your budget" THEN 3
    ELSE IF note.text = "Highly rated (R/5.0)" THEN 4
    ELSE IF note.text = "Currently available" THEN 5
    ELSE 0

\* Ranks that rise strictly, those of value 0 left aside.
InOrder(ranks) ==
    \A a \in 1..Len(ranks) : \A b \in (a + 1)..Len(ranks) :
        (ranks[a] > 0 /\ ranks[b] > 0) => ranks[a] < ranks[b]

\* The ranks of an explanation's notes in the two orders.
RuleRanks(explanation) == [a \in DOMAIN explanation |-> RuleRank(explanation[a])]

TalentRuleRanks(explanation) == [a \in DOMAIN explanation |-> TalentRuleRank(explanation[a])]

\* C10 (as claimed): in both directions the notes of an explanation stand in
\* the order skill, budget, experience, collaborative, freshness.
C10_SameOrderBothDirections ==
    (Answered /\ response.by \in {"hybrid", "talent"}) =>
        \A j \in 1..Len(response.body) : InOrder(RuleRanks(response.body[j].explanation))

\* C10 (amended): the notes of a projects-for-developer explanation stand in
\* the order skill, budget, experience, collaborative, freshness; those of a
\* developers-for-project explanation in the order skill, experience, budget,
\* reputation, availability.
C10_OrderPerDirection ==
    /\ (Answered /\ response.by = "hybrid") =>
            \A j \in 1..Len(response.body) :
                /\ InOrder(RuleRanks(response.body[j].explanation))
                /\ \A a \in 1..Len(response.body[j].explanation) :
                        \/ RuleRank(response.body[j].explanation[a]) > 0
                        \/ response.body[j].explanation = <<Fallback(response.body[j])>>
    /\ (Answered /\ response.by = "talent") =>
            \A j \in 1..Len(response.body) :
                /\ InOrder(TalentRuleRanks(response.body[j].explanation))
                /\ \A a \in 1..Len(response.body[j].explanation) :
                        \/ TalentRuleRank(response.body[j].explanation[a]) > 0
                        \/ response.body[j].explanation = <<Fallback(response.body[j])>>

\* C10's case: explanations holding both a budget and an experience note, one
\* in each direction.
C10_Witness ==
    /\ Answered
    /\ \E j \in 1..Len(response.body) :
        \E a, b \in 1..Len(response.body[j].explanation) :
            /\ a < b
            /\ \/ /\ response.by = "hybrid"
                  /\ RuleRank(response.body[j].explanation[a]) = 2
                  /\ RuleRank(response.body[j].explanation[b]) = 3
                  /\ Len(response.body[j].explanation) = 5
               \/ /\ response.by = "talent"
                  /\ TalentRuleRank(response.body[j].explanation[a]) = 2
                  /\ TalentRuleRank(response.body[j].explanation[b]) = 3

\* The skill match of the scored input as a fraction: matched of required.
SkillMatched == Cardinality(request.skills \cap request.required_skills)

SkillRequired == Cardinality(request.required_skills)

\* skill_match > 0.7, and 0.5 < skill_match <= 0.7, of the scored input (an
\* empty required list scores 0.5).
SkillIsStrong == SkillRequired > 0 /\ 10 * SkillMatched > 7 * SkillRequired

SkillIsGood ==
    /\ SkillRequired > 0
    /\ 2 * SkillMatched > SkillRequired
    /\ 10 * SkillMatched <= 7 * SkillRequired

\* The skill notes of an explanation, in order.
SkillNotesOf(explanation) ==
    SelectSeq(explanation,
              LAMBDA note : note.text \in {"Strong skill match (N%)", "Good skill match (N%)"})

\* The one skill note an explanation must hold for the scored input.
StrongNote == Note("Strong skill match (N%)", <<(100 * SkillMatched) \div SkillRequired>>)

GoodNote == Note("Good skill match (N%)", <<(100 * SkillMatched) \div SkillRequired>>)

\* C11 (as claimed): in either direction the explanation holds a "Strong skill
\* match (N%)" note iff skill_match > 0.7, a "Good skill match (N%)" note iff
\* 0.5 < skill_match <= 0.7, and no skill note iff skill_match <= 0.5.
C11_SkillNoteBothDirections ==
    response.op = "skill" =>
        \A d \in 1..2 :
            SkillNotesOf(response.body[d].explanation) =
                IF SkillIsStrong THEN <<StrongNote>>
                ELSE IF SkillIsGood THEN <<GoodNote>>
                ELSE <<>>

\* C11 (amended): a projects-for-developer explanation holds the "Strong" note
\* iff skill_match > 0.7, the "Good" note iff 0.5 < skill_match <= 0.7 and no
\* skill note iff skill_match <= 0.5; a developers-for-project explanation
\* holds the "Strong" note iff skill_match > 0.7 and no skill note otherwise.
C11_SkillNotePerDirection ==
    response.op = "skill" =>
        /\ SkillNotesOf(response.body[1].explanation) =
                IF SkillIsStrong THEN <<StrongNote>>
                ELSE IF SkillIsGood THEN <<GoodNote>>
                ELSE <<>>
        /\ SkillNotesOf(response.body[2].explanation) =
                IF SkillIsStrong THEN <<StrongNote>> ELSE <<>>

\* C11's case: 2 of 3 required skills matched, "Good skill match (66%)" in the
\* projects-for-developer explanation.
C11_Witness ==
    /\ response.op = "skill"
    /\ SkillMatched = 2
    /\ SkillRequired = 3
    /\ response.body[1].explanation[1] = Note("Good skill match (N%)", <<66>>)

\* C12: the content scorer, the talent scorer and the cold-start recommender
\* all compute skill_match = |P \cap R| / |R| for a non-empty R and 0.5 for an
\* empty one; for a non-empty R it lies in [0, 1] and is 1.0 iff R is a subset
\* of P.
C12_SkillMatchFormula ==
    response.op = "skill" =>
        \A d \in 1..3 :
            LET skill_match == response.body[d].skill_match_score
            IN  /\ SkillRequired = 0 => skill_match = 5000
                /\ SkillRequired > 0 =>
                    /\ skill_match = Round4(R(SkillMatched, SkillRequired))
                    /\ 0 <= skill_match /\ skill_match <= 10000
                    /\ skill_match = 10000 <=> request.required_skills \subseteq request.skills

\* C12's case: every required skill held, among others the project does not ask for.
C12_Witness ==
    /\ response.op = "skill"
    /\ SkillRequired = 3
    /\ request.required_skills \subseteq request.skills
    /\ request.skills # request.required_skills
    /\ \A d \in 1..3 : response.body[d].skill_match_score = 10000

\* The scored budget input is a {min, max} range with min < max.
BoundedRange ==
    /\ request.op = "budget"
    /\ DOMAIN request.budget_range = {"min", "max"}
    /\ request.budget_range["min"] < request.budget_range["max"]

\* C13 (as claimed): for a {min, max} range with min < max, budget_fit is 1.0
\* at the exact midpoint and 0.8 at min and at max, in both directions.
C13_MidpointAndEdgesBothDirections ==
    (response.op = "budget" /\ BoundedRange) =>
        \A d \in 1..2 :
            /\ 2 * request.hourly_rate
                    = request.budget_range["min"] + request.budget_range["max"]
                 => response.body[d].budget_fit_score = 10000
            /\ request.hourly_rate \in {request.budget_range["min"],
                                        request.budget_range["max"]}
                 => response.body[d].budget_fit_score = 8000

\* C14 (as claimed): for every hourly rate and every budget spec, the
\* budget_fit of the developers-for-project direction equals the budget_fit of
\* the projects-for-developer direction.
C14_BudgetFitSameBothDirections ==
    (response.op = "budget" /\ "error" \notin DOMAIN response.body[1]) =>
        response.body[2].budget_fit_score = response.body[1].budget_fit_score

\* C15 (as claimed): for every positive hourly rate and every budget spec
\* (estimated hours of 0, a fixed budget of 0, min = max = rate among them)
\* the budget fit returns a score and raises no error.
C15_BudgetFitNeverRaises ==
    response.op = "budget" => \A d \in 1..2 : "error" \notin DOMAIN response.body[d]

\* ------------------------------------------------ collaborative scores

\* The neighbours calculate_collaborative_scores selects for the request's user.
Neighbours ==
    LET snap == request.snapshot
        row  == snap.similarity_model[1][snap.user_index[request.user_id]]
    IN  {SimilarUserIndices(row, TopKSimilar)[k] :
            k \in 1..Len(SimilarUserIndices(row, TopKSimilar))}

\* Neighbour n's similarity to the request's user, and its interaction weight
\* on a project of the item index.
SimilarityTo(n) ==
    request.snapshot.similarity_model[1][request.snapshot.user_index[request.user_id]][n]

Interaction(n, project_id) ==
    request.snapshot.user_item_matrix[1][n][request.snapshot.item_index[project_id]]

\* The neighbours that count for a project: those with an interaction on it.
Counting(project_id) == {n \in Neighbours : Interaction(n, project_id) # 0}

NoSnapshotLoaded == request.snapshot.similarity_model = None

UserUnknown == request.user_id \notin DOMAIN request.snapshot.user_index

CandidateIds ==
    {request.candidate_projects[i] : i \in 1..Len(request.candidate_projects)}

\* C16: calculate_collaborative_scores gives a candidate exactly 0.5 when no
\* snapshot is loaded, when the user is not in the user index, when the
\* candidate is not in the item index, and when the similarities of the
\* selected neighbours with a nonzero interaction on the candidate sum to zero.
C16_NeutralScore ==
    response.op = "collab" =>
        \A project_id \in CandidateIds :
            (\/ NoSnapshotLoaded
             \/ UserUnknown
             \/ project_id \notin DOMAIN request.snapshot.item_index
             \/ \A n \in Counting(project_id) : SimilarityTo(n) = 0)
                => response.body[project_id] = R(1, 2)

\* A scoring on a loaded snapshot of a known user with two candidates: one not
\* in the item index, one whose only interacting neighbour has similarity 0.
C16_Witness ==
    /\ response.op = "collab"
    /\ ~NoSnapshotLoaded /\ ~UserUnknown
    /\ \E unseen, seen \in CandidateIds :
          /\ unseen \notin DOMAIN request.snapshot.item_index
          /\ seen \in DOMAIN request.snapshot.item_index
          /\ Counting(seen) # {}
          /\ \A n \in Counting(seen) : SimilarityTo(n) = 0
          /\ response.body[unseen] = R(1, 2)
          /\ response.body[seen] = R(1, 2)

\* The sum of a function's values.
RECURSIVE SumOf(_)
SumOf(f) ==
    IF DOMAIN f = {} THEN 0
    ELSE LET n == CHOOSE n \in DOMAIN f : TRUE
         IN  f[n] + SumOf([m \in DOMAIN f \ {n} |-> f[m]])

\* Sigma similarity x weight and Sigma similarity over the neighbours that
\* count for a project.
WeightedSum(project_id) ==
    SumOf([n \in Counting(project_id) |-> SimilarityTo(n) * Interaction(n, project_id)])

SimilaritySum(project_id) == SumOf([n \in Counting(project_id) |-> SimilarityTo(n)])

\* The weighted average is taken for this candidate.
Averaged(project_id) ==
    /\ ~NoSnapshotLoaded /\ ~UserUnknown
    /\ project_id \in DOMAIN request.snapshot.item_index
    /\ SimilaritySum(project_id) > 0

\* C17: calculate_collaborative_scores returns one score per candidate id,
\* every score is in [0, 1], and where the neighbour denominator is positive
\* the score is min((Sigma similarity x weight) / (Sigma similarity) / 10, 1.0).
C17_OneScorePerCandidateInUnitRange ==
    response.op = "collab" =>
        /\ DOMAIN response.body = CandidateIds
        /\ \A project_id \in CandidateIds :
              /\ RLe(R(0, 1), response.body[project_id])
              /\ RLe(response.body[project_id], R(1, 1))
              /\ Averaged(project_id) =>
                    response.body[project_id] =
                        RMin(RDiv(R(WeightedSum(project_id), SimilaritySum(project_id)),
                                  R(10, 1)),
                             R(1, 1))

\* A scoring with one candidate whose weighted average is above 10 (score 1.0)
\* and one whose weighted average is below 10.
C17_Witness ==
    /\ response.op = "collab"
    /\ \E above, below \in CandidateIds :
          /\ Averaged(above) /\ Averaged(below)
          /\ WeightedSum(above) > 10 * SimilaritySum(above)
          /\ WeightedSum(below) < 10 * SimilaritySum(below)
          /\ response.body[above] = R(1, 1)
          /\ RLt(response.body[below], R(1, 1))

\* ------------------------------------------------------- relevance score

\* The weight pair the caller gave, or 0.6 / 0.4 when the caller gave none.
GivenWeights ==
    IF request.hybrid_weights = None
    THEN [collaborative |-> R(6, 10), content |-> R(4, 10)]
    ELSE request.hybrid_weights[1]

\* The collaborative score of the request's project for the request's developer.
CollaborativeScoreOfRequest ==
    CollabScores(request.snapshot, request.developer_id, <<request.project["id"]>>,
                 TopKSimilar)[request.project["id"]]

\* The five factors of the talent direction on the request's pair, weighted.
TalentComposite ==
    LET developer == request.developer_profile
        project   == request.project
    IN  RAdd(RAdd(RAdd(RAdd(
            RMul(R(35, 100), SkillMatch(developer["skills"], project["required_skills"])),
            RMul(R(20, 100), ExperienceFit(developer["experience_level"],
                                           project["complexity_level"]))),
            RMul(R(20, 100), TalentBudgetAlignment(developer["hourly_rate"],
                                                   project["budget_range"]))),
            RMul(R(15, 100), ReputationScore(developer))),
            RMul(R(10, 100), AvailabilityScore(developer)))

\* C18: the relevance_score of a projects-for-developer result is
\* collaborative_score x w_collab + content composite x w_content (reported to
\* four decimals) with the caller's weights exactly as given and 0.6 / 0.4 when
\* none are given; the relevance_score of a developers-for-project result is
\* its content composite alone, and the result carries no collaborative score.
C18_RelevanceIsWeightedSum ==
    response.op = "hybrid" =>
        /\ response.body[1].relevance_score =
              Round4(RAdd(RMul(CollaborativeScoreOfRequest, GivenWeights["collaborative"]),
                          RMul(Bp(response.body[1].content_score), GivenWeights["content"])))
        /\ response.body[1].content_score =
              ContentBreakdown(request.developer_profile, request.project,
                               now)["composite_score"]
        /\ response.body[2].relevance_score = Round4(TalentComposite)
        /\ "collaborative_score" \notin DOMAIN response.body[2]

\* A result under a caller's weights that do not sum to 1, with a collaborative
\* score that is not the neutral one, whose relevance differs from the one the
\* weights scaled to sum 1 would give.
C18_Witness ==
    /\ response.op = "hybrid"
    /\ request.hybrid_weights # None
    /\ RAdd(GivenWeights["collaborative"], GivenWeights["content"]) # R(1, 1)
    /\ CollaborativeScoreOfRequest # R(1, 2)
    /\ response.body[1].relevance_score > 10000
    /\ response.body[2].relevance_score = Round4(TalentComposite)

\* ----------------------------------------------------- cold-start score

\* The popularity count of the request's item (0 when it carries none).
PopularityCount == Get(request.popular, "application_count", 0)

\* |P n R| / |R| for the request's skills and item, 0.5 when R is empty.
ColdSkillMatch ==
    IF request.popular["required_skills"] = {} THEN R(1, 2)
    ELSE R(Cardinality(request.skills \cap request.popular["required_skills"]),
           Cardinality(request.popular["required_skills"]))

\* 0.7 x min(c / 50, 1.0) + 0.3 x skill_match, to four decimals.
ColdRelevance(c, skill_match) ==
    Round4(RAdd(RMul(R(7, 10), IF c < 50 THEN R(c, 50) ELSE R(1, 1)),
                RMul(R(3, 10), skill_match)))

\* C19: the cold-start relevance_score of a popular item with count c is
\* 0.7 x min(c/50, 1.0) + 0.3 x skill_match; c = 25 with skill_match 0.4 gives
\* 0.47, and any c >= 50 gives what c = 50 gives.
C19_ColdStartRelevance ==
    response.op = "cold" =>
        /\ response.body.relevance_score = ColdRelevance(PopularityCount, ColdSkillMatch)
        /\ (PopularityCount = 25 /\ ColdSkillMatch = R(2, 5))
              => response.body.relevance_score = 4700
        /\ PopularityCount >= 50
              => response.body.relevance_score = ColdRelevance(50, ColdSkillMatch)

\* The example scored: an item of count 25 of whose five skills the requester
\* has two.
C19_Witness ==
    /\ response.op = "cold"
    /\ PopularityCount = 25
    /\ ColdSkillMatch = R(2, 5)
    /\ response.body.relevance_score = 4700
    /\ response.body.model_version = ColdStartVersion

\* ------------------------------------------------------- factor scores

\* A reported score (in ten-thousandths) is in [0, 1].
InUnitRange(score) == 0 <= score /\ score <= 10000

\* C20 (as claimed): for a rating in 0..5, a completion rate in 0..1, a
\* positive hourly rate and non-negative budget figures, each factor score of
\* a breakdown (skill_match, experience_match, budget_fit, recency,
\* preference_match, reputation, availability) is in [0, 1].
C20_FactorsInUnitRange ==
    response.op = "factors" =>
        /\ \A factor \in {"skill_match", "experience_match", "budget_fit", "recency_score",
                          "preference_match"} :
              InUnitRange(response.body[1][factor])
        /\ \A factor \in {"skill_match_score", "experience_match_score", "budget_fit_score",
                          "reputation_score", "availability_score"} :
              InUnitRange(response.body[2][factor])

\* ---------------------------------------------------- preference match

\* The preference dimensions the request's profile specifies.
Specified == DOMAIN request.preferences \cap PreferenceKeys

\* A specified dimension is satisfied by the request's project.
Satisfied(dimension) ==
    CASE dimension = "project_types" ->
            /\ request.project["project_type"] # None
            /\ request.project["project_type"][1] \in request.preferences["project_types"]
      [] dimension = "remote_preference" ->
            \/ request.preferences["remote_preference"] \in {"hybrid", "no_preference"}
            \/ /\ request.preferences["remote_preference"] = "remote_only"
               /\ request.project["is_remote"] = Some(TRUE)
            \/ /\ request.preferences["remote_preference"] = "onsite_only"
               /\ request.project["is_remote"] # Some(TRUE)
      [] dimension = "industries" ->
            /\ request.project["industry"] # None
            /\ request.project["industry"][1] \in request.preferences["industries"]

SnapshotFields == {"similarity_model", "user_item_matrix", "user_index", "item_index",
                   "model_version"}

TimestampField == "saved_at"

ScoreRequestAnswered ==
    /\ request.op \in {"projects", "talent"}
    /\ response.op = "none"
    /\ response'.op = request.op

\* C23: a scoring request leaves the engine's similarity matrix, interaction
\* matrix, user index, item index and model_version as they were, whatever
\* the request and whatever the engine holds.
C23_ScoringLeavesSnapshot ==
    [][ScoreRequestAnswered => engine' = engine]_vars

\* A hybrid ranking has been answered from a loaded snapshot, which the
\* engine still holds.
C23_Witness ==
    /\ response.op = "projects"
    /\ response.by = "hybrid"
    /\ response.status = 200
    /\ Len(response.body) > 1
    /\ \E snap \in Snapshots : engine = Loaded(snap)

\* --------------------------------------------------------- determinism

\* The age bracket of a candidate at a moment: under 7 days, under 14, under
\* 30, older; a candidate without a creation time has none.
AgeBracket(project, moment) ==
    IF project["created_at"] = None THEN "none"
    ELSE LET days_old == moment - project["created_at"][1]
         IN  IF days_old < 7 THEN "week"
             ELSE IF days_old < 14 THEN "fortnight"
             ELSE IF days_old < 30 THEN "month"
             ELSE "older"

\* Every candidate of the request is in the same age bracket at both moments.
SameAgeBrackets ==
    \A i \in 1..Len(request.candidate_projects) :
        AgeBracket(request.candidate_projects[i], request.first)
            = AgeBracket(request.candidate_projects[i], request.second)

\* C24 (as claimed): two executions of the same score request against the
\* same snapshot return identical result lists, at whatever moments they run.
C24_SameRequestSameResult ==
    response.op = "twice" => response.body[request.first] = response.body[request.second]

\* C24 (amended): two executions of the same score request against the same
\* snapshot return identical result lists when they run at moments at which
\* every candidate is in the same age bracket (the recency score reads the
\* clock).
C24_SameRequestSameResultAtSameAges ==
    (response.op = "twice" /\ SameAgeBrackets) =>
        response.body[request.first] = response.body[request.second]

\* Two executions on different days, with every candidate in the same age
\* bracket on both, and a list of two results.
C24_Witness ==
    /\ response.op = "twice"
    /\ request.first # request.second
    /\ SameAgeBrackets
    /\ \E i \in 1..Len(request.candidate_projects) :
          request.candidate_projects[i]["created_at"] # None
    /\ Len(response.body[request.first]) = 2
    /\ response.body[request.first] = response.body[request.second]

\* ---------------------------------------------------- neighbour selection

\* The target user's position, its similarity row, and the selected positions.
TargetIndex == request.snapshot.user_index[request.user_id]

TargetRow == request.snapshot.similarity_model[1][TargetIndex]

Selected == {response.body[k] : k \in 1..Len(response.body)}

OtherUsers == (1..Len(TargetRow)) \ {TargetIndex}

\* C25 (as claimed): the neighbours selected for a user of the index never
\* include the user itself and are the K other users of highest similarity
\* (all the others when there are fewer than K), also when another user's
\* similarity ties with the self-similarity.
C25_NeighboursAreTopKOthers ==
    response.op = "neighbours" =>
        /\ TargetIndex \notin Selected
        /\ Cardinality(Selected) = Min2(request.top_k_similar, Cardinality(OtherUsers))
        /\ \A chosen \in Selected : \A left \in OtherUsers \ Selected :
              TargetRow[chosen] >= TargetRow[left]

\* ------------------------------------------------------------- training

\* C26 (as claimed): when train_collaborative_model fails part-way, the
\* engine's interaction matrix, similarity matrix, user index and item index
\* are those it held before the call.
C26_FailedTrainingChangesNothing ==
    (response.op = "train" /\ response.body.raised) =>
        \A field \in {"user_item_matrix", "similarity_model", "user_index", "item_index"} :
            response.body.engine[field] = request.before[field]

\* The user ids and item ids the request's events mention.
ObservedUsers == {request.events[k].user_id : k \in 1..Len(request.events)}

ObservedItems == {request.events[k].project_id : k \in 1..Len(request.events)}

\* The weights of the request's events of one user on one item, added up.
EventWeightSum(user_id, project_id) ==
    SumOf([k \in 1..Len(request.events) |->
            IF request.events[k].user_id = user_id
               /\ request.events[k].project_id = project_id
            THEN CASE request.events[k].interaction_type = "view"  -> 1
                   [] request.events[k].interaction_type = "apply" -> 3
                   [] request.events[k].interaction_type = "hire"  -> 5
            ELSE 0])

\* The request's events in every order.
Reorderings ==
    {[k \in 1..Len(request.events) |-> request.events[order[k]]] :
        order \in {o \in [1..Len(request.events) -> 1..Len(request.events)] :
                      \A a, b \in 1..Len(request.events) : o[a] = o[b] => a = b}}

\* C27: the matrix built from a collection of events has the distinct
\* observed users as rows and the distinct observed items as columns, each
\* cell is the sum of the weights (view 1, apply 3, hire 5) of the events of
\* its user and item, 0 where there is none and never negative, and the
\* matrix is the same for every order of the events.
C27_MatrixIsSumOfWeights ==
    response.op = "train" =>
        LET matrix == response.body.matrix
        IN  /\ {matrix.index[r] : r \in 1..Len(matrix.index)} = ObservedUsers
            /\ Len(matrix.index) = Cardinality(ObservedUsers)
            /\ {matrix.columns[c] : c \in 1..Len(matrix.columns)} = ObservedItems
            /\ Len(matrix.columns) = Cardinality(ObservedItems)
            /\ \A r \in 1..Len(matrix.index) : \A c \in 1..Len(matrix.columns) :
                  /\ matrix.cells[r][c] = EventWeightSum(matrix.index[r], matrix.columns[c])
                  /\ matrix.cells[r][c] >= 0
            /\ \A events \in Reorderings : CreateInteractionMatrix(events) = matrix

\* Three events of two users on two items, two of them on the same pair
\* (their weights added), one pair without an event (cell 0).
C27_Witness ==
    /\ response.op = "train"
    /\ Len(request.events) = 3
    /\ Cardinality(ObservedUsers) = 2 /\ Cardinality(ObservedItems) = 2
    /\ Cardinality(Reorderings) > 1
    /\ \E r, c \in 1..2 : response.body.matrix.cells[r][c] \in {4, 6, 8}
    /\ \E r, c \in 1..2 : response.body.matrix.cells[r][c] = 0

\* ------------------------------------------------- the flag and the engine

\* The engine holds snapshot data: its similarity matrix and its interaction
\* matrix are set.
HoldsSnapshot == engine.similarity_model # None /\ engine.user_item_matrix # None

\* C28 (as claimed): through startup and any sequence of successful or failed
\* reloads, MODEL_LOADED is true exactly when the engine holds a loaded
\* snapshot.
C28_FlagIffSnapshot == MODEL_LOADED <=> HoldsSnapshot

\* ------------------------------------------- what the results refer to

ProjectsAnswered == Answered /\ response.op = "projects"

RequestedIds == {request.candidate_projects[j]["id"] : j \in 1..Len(request.candidate_projects)}

PopularIds == {popular_projects[j]["id"] : j \in 1..Len(popular_projects)}

\* C29 (as claimed): every result returned for a projects-for-developer
\* request refers to one of the candidates of that request, with a trained
\* model and in cold-start mode alike.
C29_ResultsAmongCandidates == ProjectsAnswered => ReturnedIds \subseteq RequestedIds

\* C29 (amended): with a trained model every result refers to one of the
\* request's candidates; in cold-start mode every result refers to one of the
\* popular items, whatever the request's candidates are.
C29_ResultsAmongCandidatesOrPopular ==
    ProjectsAnswered =>
        IF response.by = "hybrid"
        THEN ReturnedIds \subseteq RequestedIds
        ELSE ReturnedIds \subseteq PopularIds

\* A cold-start answer naming a project that is not among the candidates of a
\* request that has candidates.
C29_Witness ==
    /\ ProjectsAnswered
    /\ response.by = "cold_start"
    /\ request.candidate_projects # <<>>
    /\ ReturnedIds \ RequestedIds # {}

\* ------------------------------------------- optional fields left out

\* A profile with the scorer's defaults written in place of the optional
\* fields it leaves out: no preferences, rating 4.0, completion rate 0.8.
WithDefaults(profile) ==
    [key \in DOMAIN profile |->
        IF key \notin {"preferences", "average_rating", "completion_rate"}
        THEN profile[key]
        ELSE IF profile[key] # None THEN profile[key]
        ELSE IF key = "preferences" THEN Some(<<>>)
        ELSE IF key = "average_rating" THEN Some(R(4, 1))
        ELSE Some(R(8, 10))]

LeavesOut(profile, keys) == \E key \in keys \cap DOMAIN profile : profile[key] = None

\* The request leaves out an optional field the claim names.
OmitsOptionalField ==
    \/ /\ request.op = "projects"
       /\ LeavesOut(request.developer_profile, {"preferences"})
    \/ /\ request.op = "talent"
       /\ \E j \in 1..Len(request.candidate_developers) :
              LeavesOut(request.candidate_developers[j], {"average_rating", "completion_rate"})

\* The answer the service gives the request with the defaults written out.
AnswerWithDefaults ==
    IF request.op = "projects"
    THEN ProjectsResponse(engine, MODEL_LOADED, popular_projects,
                          [request EXCEPT !.developer_profile = WithDefaults(@)], now)
    ELSE TalentResponse([request EXCEPT !.candidate_developers =
                            [j \in DOMAIN @ |-> WithDefaults(@[j])]])

\* C30 (as claimed): a score request whose profiles leave out optional
\* fields (the developer's preferences; a candidate's average_rating or
\* completion_rate) succeeds, with the scorer's defaults in their place: its
\* answer is the one the request gets with the defaults written out.
C30_OmittedFieldsTakeDefaults ==
    (OmitsOptionalField /\ response.op # "none" /\ AnswerWithDefaults.status = 200)
        => response = AnswerWithDefaults

====
